---------------------------- MODULE Spec2Model ----------------------------
(***************************************************************************)
(* A model of the SDS field-extraction engine of ocr_service/parse_sds.py. *)
(*                                                                         *)
(* Text is a sequence of lines.  A line is a record                        *)
(*     [num, k, tok]                                                       *)
(* num : the section number the segmenter's header pattern captures at the *)
(*       start of the line as digits (-1 when the line starts with none),  *)
(* k   : the lexeme the rest of the line carries, named by a               *)
(*       representative phrase of the pattern alternative it matches,      *)
(* tok : the date-shaped token that follows the lexeme on the line         *)
(*       (NoTok when there is none).                                       *)
(* Strings the code computes with (date tokens, ISO dates) are records     *)
(* that keep the digits, so that parsing and formatting are computed.      *)
(* Confidence values are held in tenths (10 is 1.0).                       *)
(***************************************************************************)
EXTENDS Integers, Sequences, FiniteSets, TLC

VARIABLES
    pc,        \* position of the running entry point / function
    today,     \* date.today() of the invocation
    sect16,    \* _resolve_issue_date: first argument
    fullText,  \* _resolve_issue_date: second argument
    issue,     \* _resolve_issue_date: returned value
    sect2,     \* _extract_hazard_statements / _is_hazardous: section 2 body
    hazard,    \* their results: [statements, flag, conf]
    sect14,    \* _dangerous_goods_tuple(_improved): section 14 body
    dg,        \* result of _dangerous_goods_tuple_improved
    dgOld,     \* result of _dangerous_goods_tuple
    ext,       \* what each extraction library does on the bytes
    debug,     \* os.getenv("DEBUG_SDS") == "1"
    acq,       \* extract_text_from_pdf: [text, raised, calls]
    ocr,       \* what _ocr_fallback_pages did in that call: [ran, images]
    entry,     \* the public entry point called
    src,       \* what reading the path / fetching the URL meets
    content,   \* the bytes acquired: [kind, lines]
    faulty,    \* the field extractor whose code raises ("none": none does)
    sections,  \* _split_sections: section number -> body
    ran,       \* the field extractors that have returned, in call order
    rec,       \* the ParsedSds record built
    outcome,   \* how the call ended: [kind, error]
    sect1      \* the section 1 body handed to the field extractors

dateVars == <<today, sect16, fullText, issue>>
hazVars == <<sect2, hazard>>
dgVars == <<sect14, dg, dgOld>>
acqVars == <<ext, debug, acq, ocr>>
parseVars == <<entry, src, content, faulty, sections, ran, rec, outcome>>
fieldVars == <<sect1>>
vars == <<pc, dateVars, hazVars, dgVars, acqVars, parseVars, fieldVars>>

(***************************************************************************)
(* Bounds of the model.                                                    *)
(***************************************************************************)
MaxS16Lines == 2
MaxFullLines == 1
NearWindow == 1
MaxS2Lines == 3
MaxS14Lines == 3

(***************************************************************************)
(* Sequences over S of length at most n.                                   *)
(***************************************************************************)
SeqUpTo(S, n) == UNION {[1..k -> S] : k \in 0..n}

(***************************************************************************)
(* Date tokens: the three shapes of the date alternation                   *)
(*   \d{4}-\d{2}-\d{2} | \d{1,2}/\d{1,2}/\d{2,4} | \d{1,2}\s+[A-Za-z]{3,9}\s+\d{4} *)
(* iso   : y-a-b      (a the month digits, b the day digits)               *)
(* slash : a/b/y      with yl digits of year                               *)
(* text  : a mon y                                                         *)
(***************************************************************************)
NoTok == [shape |-> "none", a |-> 0, b |-> 0, y |-> 0, yl |-> 0, mon |-> ""]
Iso(y, m, d) == [shape |-> "iso", a |-> m, b |-> d, y |-> y, yl |-> 4, mon |-> ""]
Slash(a, b, y, yl) == [shape |-> "slash", a |-> a, b |-> b, y |-> y, yl |-> yl, mon |-> ""]
TextDate(d, mon, y) == [shape |-> "text", a |-> d, b |-> 0, y |-> y, yl |-> 4, mon |-> mon]

FutureDays == 60

IsLeap(y) == (y % 4 = 0) /\ ((y % 100 # 0) \/ (y % 400 = 0))

DaysInMonth(y, m) ==
    IF m = 2 THEN (IF IsLeap(y) THEN 29 ELSE 28)
    ELSE IF m \in {4, 6, 9, 11} THEN 30 ELSE 31

ValidYMD(y, m, d) ==
    /\ y >= 1 /\ y <= 9999
    /\ m >= 1 /\ m <= 12
    /\ d >= 1 /\ d <= DaysInMonth(y, m)

RECURSIVE DaysBeforeMonth(_, _)
DaysBeforeMonth(y, m) ==
    IF m <= 1 THEN 0 ELSE DaysBeforeMonth(y, m - 1) + DaysInMonth(y, m - 1)

\* date.toordinal(): days since 0001-01-01 (which has ordinal 1)
ToOrdinal(y, m, d) ==
    365 * (y - 1) + ((y - 1) \div 4) - ((y - 1) \div 100) + ((y - 1) \div 400)
        + DaysBeforeMonth(y, m) + d

FullMonths == <<"January", "February", "March", "April", "May", "June", "July",
                "August", "September", "October", "November", "December">>
AbbrMonths == <<"Jan", "Feb", "Mar", "Apr", "May", "Jun", "Jul",
                "Aug", "Sep", "Oct", "Nov", "Dec">>

MonthIndex(names, w) ==
    IF \E i \in 1..12 : names[i] = w
    THEN CHOOSE i \in 1..12 : names[i] = w
    ELSE 0

Fail == [ok |-> FALSE, y |-> 0, m |-> 0, d |-> 0]
Parsed(y, m, d) ==
    IF ValidYMD(y, m, d) THEN [ok |-> TRUE, y |-> y, m |-> m, d |-> d] ELSE Fail

\* %y: two digits, 69..99 -> 19xx, 00..68 -> 20xx
TwoDigitYear(y) == IF y < 69 THEN 2000 + y ELSE 1900 + y

\* datetime.strptime(raw, fmt) for the formats _normalise_date tries;
\* Fail stands for ValueError
Strptime(raw, fmt) ==
    CASE fmt = "%Y-%m-%d" ->
            IF raw.shape = "iso" THEN Parsed(raw.y, raw.a, raw.b) ELSE Fail
      [] fmt = "%d/%m/%Y" ->
            IF raw.shape = "slash" /\ raw.yl = 4 THEN Parsed(raw.y, raw.b, raw.a) ELSE Fail
      [] fmt = "%d/%m/%y" ->
            IF raw.shape = "slash" /\ raw.yl = 2
            THEN Parsed(TwoDigitYear(raw.y), raw.b, raw.a) ELSE Fail
      [] fmt = "%m/%d/%Y" ->
            IF raw.shape = "slash" /\ raw.yl = 4 THEN Parsed(raw.y, raw.a, raw.b) ELSE Fail
      [] fmt = "%m/%d/%y" ->
            IF raw.shape = "slash" /\ raw.yl = 2
            THEN Parsed(TwoDigitYear(raw.y), raw.a, raw.b) ELSE Fail
      [] fmt = "%d %B %Y" ->
            IF raw.shape = "text"
            THEN Parsed(raw.y, MonthIndex(FullMonths, raw.mon), raw.a) ELSE Fail
      [] fmt = "%d %b %Y" ->
            IF raw.shape = "text"
            THEN Parsed(raw.y, MonthIndex(AbbrMonths, raw.mon), raw.a) ELSE Fail
      [] OTHER -> Fail

\* the formats with the month-first ones before the day-first ones
FormatsMonthFirst == <<"%Y-%m-%d", "%m/%d/%Y", "%m/%d/%y", "%d/%m/%Y", "%d/%m/%y",
                       "%d %B %Y", "%d %b %Y">>

Formats == <<"%Y-%m-%d", "%d/%m/%Y", "%d/%m/%y", "%m/%d/%Y", "%m/%d/%y",
             "%d %B %Y", "%d %b %Y">>

\* lines 311-318: the swap retry, f"{M}/{d}/{y}" parsed with "%m/%d/%Y";
\* y is printed as an integer, so %Y sees four digits only from 1000 on
SwapRetry(raw) ==
    IF /\ raw.shape = "slash"
       /\ raw.a >= 1 /\ raw.a <= 12 /\ raw.b >= 1 /\ raw.b <= 12 /\ raw.a # raw.b
       /\ raw.y >= 1000
    THEN Parsed(raw.y, raw.b, raw.a)
    ELSE Fail

UnparsedResult(raw) == raw

NormaliseDate(raw) ==
    IF \E i \in 1..Len(Formats) : Strptime(raw, Formats[i]).ok
    THEN LET i == CHOOSE j \in 1..Len(Formats) :
                      /\ Strptime(raw, Formats[j]).ok
                      /\ \A h \in 1..(j - 1) : ~Strptime(raw, Formats[h]).ok
             p == Strptime(raw, Formats[i])
         IN Iso(p.y, p.m, p.d)
    ELSE IF SwapRetry(raw).ok
         THEN Iso(SwapRetry(raw).y, SwapRetry(raw).m, SwapRetry(raw).d)
         ELSE UnparsedResult(raw)

\* datetime.fromisoformat(s).date() on the strings the resolver hands it
FromIsoFormat(s) ==
    IF s.shape = "iso" THEN Parsed(s.y, s.a, s.b) ELSE Fail

(***************************************************************************)
(* Lines and the lexemes of the issue-date labels.                         *)
(***************************************************************************)
Line(num, k, tok) == [num |-> num, k |-> k, tok |-> tok]

\* PATTERNS["date_of_issue"] .. PATTERNS["date_prepared"]: the label
\* lexemes each pattern's label part matches
LabelLexemes(pat) ==
    CASE pat = "date_of_issue"    -> {"Date of issue"}
      [] pat = "revision_date"    -> {"Date of revision", "Revision Date"}
      [] pat = "issue_date_label" -> {"Issue Date"}
      [] pat = "issued_on"        -> {"Issued"}
      [] pat = "date_prepared"    -> {"Date Prepared"}
      [] OTHER -> {}

\* lexemes whose text holds digits (they end a run of [^\d])
DigitLexemes == {"H225 Highly flammable liquid and vapour", "UN 1170", "Class 3",
                 "Packing Group II", "Subsidiary Risk: 6.1",
                 "P210 Keep away from heat.", "CAS 64-17-5", "CAS 67-63-0"}

\* label lexemes that end in "revision" / "issue", and lexemes that start
\* with "Date": the \s* inside "Revision(?:\s*Date)?" and "Issue\s*Date"
\* also runs over line breaks
TailLexemes(pat) ==
    CASE pat = "revision_date"    -> {"Date of revision"}
      [] pat = "issue_date_label" -> {"Date of issue"}
      [] OTHER -> {}
DateHeadLexemes == {"Date of issue", "Date of revision", "Date Prepared"}

\* the first line after line i that is not blank (0 when there is none)
NextNonBlank(text, i) ==
    IF \E j \in (i + 1)..Len(text) : text[j].k # "blank" \/ text[j].tok # NoTok \/ text[j].num >= 0
    THEN CHOOSE j \in (i + 1)..Len(text) :
             /\ text[j].k # "blank" \/ text[j].tok # NoTok \/ text[j].num >= 0
             /\ \A h \in (i + 1)..(j - 1) :
                    text[h].k = "blank" /\ text[h].tok = NoTok /\ text[h].num < 0
    ELSE 0

\* the date group of a match of pat whose label starts on line i (NoTok for
\* none): label and date on one line, _gap being [^\d\n]{0,120}?; or the
\* label completed by the "Date" that opens the next line
PatAt(pat, text, i) ==
    IF text[i].k \in LabelLexemes(pat) /\ text[i].tok # NoTok THEN text[i].tok
    ELSE LET j == NextNonBlank(text, i)
         IN IF /\ text[i].k \in TailLexemes(pat) /\ text[i].tok = NoTok
               /\ j # 0
               /\ text[j].num < 0 /\ text[j].k \in DateHeadLexemes
            THEN text[j].tok
            ELSE NoTok

\* pat.search(text): the first match's date group, NoTok for no match
Search(pat, text) ==
    IF \E i \in 1..Len(text) : PatAt(pat, text, i) # NoTok
    THEN PatAt(pat, text, CHOOSE i \in 1..Len(text) :
                 /\ PatAt(pat, text, i) # NoTok
                 /\ \A h \in 1..(i - 1) : PatAt(pat, text, h) = NoTok)
    ELSE NoTok

\* a search that tries the whole text before Section 16
FindFirstWholeTextFirst(pat, s16, full) ==
    LET m == IF full # <<>> THEN Search(pat, full) ELSE NoTok
    IN IF m # NoTok THEN m ELSE Search(pat, s16)

\* _find_first
FindFirst(pat, s16, full) ==
    LET m == Search(pat, s16)
    IN IF m # NoTok THEN m
       ELSE IF full # <<>> THEN Search(pat, full)
       ELSE NoTok

\* a search that returns the last date-shaped token of Section 16
GenericLast(s16) ==
    IF \E i \in 1..Len(s16) : s16[i].tok # NoTok
    THEN s16[CHOOSE i \in 1..Len(s16) :
                /\ s16[i].tok # NoTok
                /\ \A h \in (i + 1)..Len(s16) : s16[h].tok = NoTok].tok
    ELSE NoTok

\* generic_date searched in Section 16 alone: the first date-shaped token
GenericFirst(s16) ==
    IF \E i \in 1..Len(s16) : s16[i].tok # NoTok
    THEN s16[CHOOSE i \in 1..Len(s16) :
                /\ s16[i].tok # NoTok
                /\ \A h \in 1..(i - 1) : s16[h].tok = NoTok].tok
    ELSE NoTok

\* label_tokens of _nearest_label_date_anywhere, in order
NearLabels == <<{"Date of issue"}, {"Date of revision"}, {"Issue Date"},
                {"Issued"}, {"Date Prepared"}>>

\* digits of line ln that come before its date token
LeadDigits(ln) == ln.num >= 0 \/ ln.k \in DigitLexemes

\* the date reached from the label on line i through at most 160 non-digit
\* characters: on the label's own line, or the first token of the next
\* NearWindow lines when no other digit comes before it
RECURSIVE NearFrom(_, _, _)
NearFrom(text, j, left) ==
    IF j > Len(text) \/ left = 0 THEN NoTok
    ELSE IF LeadDigits(text[j]) THEN NoTok
    ELSE IF text[j].tok # NoTok THEN text[j].tok
    ELSE NearFrom(text, j + 1, left - 1)

\* the label token is found on line i: whole, or ("Issue\s*Date") ending
\* the line and completed by the "Date" that opens the next line
NearLabelAt(labels, text, i) ==
    \/ text[i].k \in labels
    \/ /\ labels = {"Issue Date"}
       /\ text[i].k = "Date of issue" /\ text[i].tok = NoTok
       /\ NextNonBlank(text, i) # 0
       /\ text[NextNonBlank(text, i)].num < 0
       /\ text[NextNonBlank(text, i)].k \in DateHeadLexemes

NearAt(text, i) ==
    IF text[i].tok # NoTok THEN text[i].tok ELSE NearFrom(text, i + 1, NearWindow)

NearSearch(labels, text) ==
    LET hit(i) == NearLabelAt(labels, text, i) /\ NearAt(text, i) # NoTok
    IN IF \E i \in 1..Len(text) : hit(i)
       THEN NearAt(text, CHOOSE i \in 1..Len(text) :
                             hit(i) /\ \A h \in 1..(i - 1) : ~hit(h))
       ELSE NoTok

NearestLabelDateAnywhere(full) ==
    IF \E n \in 1..Len(NearLabels) : NearSearch(NearLabels[n], full) # NoTok
    THEN NearSearch(NearLabels[CHOOSE n \in 1..Len(NearLabels) :
                        /\ NearSearch(NearLabels[n], full) # NoTok
                        /\ \A h \in 1..(n - 1) : NearSearch(NearLabels[h], full) = NoTok],
                    full)
    ELSE NoTok

\* dt <= date.today() + timedelta(days=60)
NotTooFarWrong(p, td) == TRUE
NotTooFar(p, td) ==
    ToOrdinal(p.y, p.m, p.d) <= ToOrdinal(td.y, td.m, td.d) + FutureDays

\* the try block after each normalisation: "return" the value or go on
TryReturnDropsRaw(iso, td) ==
    FromIsoFormat(iso).ok /\ NotTooFar(FromIsoFormat(iso), td)
TryReturn(iso, td) ==
    IF FromIsoFormat(iso).ok THEN NotTooFar(FromIsoFormat(iso), td) ELSE TRUE

CandidatePatterns == <<"date_of_issue", "revision_date", "issue_date_label",
                       "issued_on", "date_prepared">>

Candidates(s16, full) ==
    [i \in 1..Len(CandidatePatterns) |-> FindFirst(CandidatePatterns[i], s16, full)]

\* _resolve_issue_date: the return statement taken ("label", "near",
\* "generic", "none"), the raw token it started from, and the value returned
Resolve(s16, full, td) ==
    LET c == Candidates(s16, full)
        good(i) == c[i] # NoTok /\ TryReturn(NormaliseDate(c[i]), td)
        near == NearestLabelDateAnywhere(full)
        gen == GenericFirst(s16)
    IN IF \E i \in 1..Len(c) : good(i)
       THEN LET i == CHOOSE j \in 1..Len(c) : good(j) /\ \A h \in 1..(j - 1) : ~good(h)
            IN [stage |-> "label", raw |-> c[i], value |-> NormaliseDate(c[i])]
       ELSE IF near # NoTok /\ TryReturn(NormaliseDate(near), td)
            THEN [stage |-> "near", raw |-> near, value |-> NormaliseDate(near)]
       ELSE IF gen # NoTok /\ TryReturn(NormaliseDate(gen), td)
            THEN [stage |-> "generic", raw |-> gen, value |-> NormaliseDate(gen)]
       ELSE [stage |-> "none", raw |-> NoTok, value |-> NoTok]

ResolveIssueDate(s16, full, td) == Resolve(s16, full, td).value

(***************************************************************************)
(* The characters of a line.  A lexeme is spelled as it stands in the      *)
(* text ("plain" stands for a sentence no pattern matches, "blank" for     *)
(* nothing); a token follows its lexeme after ": ".  The patterns ignore   *)
(* case; the lexemes spell a label capitalised, in lower case or in        *)
(* capitals, and hold no comma.                                            *)
(***************************************************************************)
PlainText == "Keep container tightly closed"
KText(k) == IF k = "blank" THEN "" ELSE IF k = "plain" THEN PlainText ELSE k

Contains(s, w) ==
    \E i \in 1..(Len(s) - Len(w) + 1) : SubSeq(s, i, i + Len(w) - 1) = w
ContainsAny(s, ws) == \E w \in ws : Contains(s, w)
StartsWith(s, w) == Len(s) >= Len(w) /\ SubSeq(s, 1, Len(w)) = w
\* lstrip of blanks
RECURSIVE LStrip(_)
LStrip(v) == IF StartsWith(v, " ") THEN LStrip(SubSeq(v, 2, Len(v))) ELSE v
IndexOf(s, w) ==
    IF Contains(s, w)
    THEN CHOOSE i \in 1..(Len(s) - Len(w) + 1) :
             /\ SubSeq(s, i, i + Len(w) - 1) = w
             /\ \A h \in 1..(i - 1) : SubSeq(s, h, h + Len(w) - 1) # w
    ELSE 0
\* len(s.split())
WordCount(s) ==
    Cardinality({i \in 1..Len(s) :
        SubSeq(s, i, i) # " " /\ (i = 1 \/ SubSeq(s, i - 1, i - 1) = " ")})

DigitStr(d) == SubSeq("0123456789", d + 1, d + 1)
RECURSIVE NumStr(_)
NumStr(n) == IF n < 10 THEN DigitStr(n) ELSE NumStr(n \div 10) \o DigitStr(n % 10)
\* "%0*d"
RECURSIVE Pad(_, _)
Pad(n, w) == IF w <= 1 THEN NumStr(n) ELSE Pad(n \div 10, w - 1) \o DigitStr(n % 10)

\* the characters of a date token
TokText(t) ==
    CASE t.shape = "iso" -> Pad(t.y, 4) \o "-" \o Pad(t.a, 2) \o "-" \o Pad(t.b, 2)
      [] t.shape = "slash" -> NumStr(t.a) \o "/" \o NumStr(t.b) \o "/" \o Pad(t.y, t.yl)
      [] t.shape = "text" -> NumStr(t.a) \o " " \o t.mon \o " " \o NumStr(t.y)
      [] OTHER -> ""

\* the characters of a line after its header number, and of the whole line
RestText(ln) ==
    IF ln.tok = NoTok THEN KText(ln.k)
    ELSE IF KText(ln.k) = "" THEN TokText(ln.tok)
    ELSE KText(ln.k) \o ": " \o TokText(ln.tok)
LineText(ln) ==
    IF ln.num < 0 THEN RestText(ln)
    ELSE IF RestText(ln) = "" THEN NumStr(ln.num) \o "."
    ELSE NumStr(ln.num) \o ". " \o RestText(ln)
LineLen(ln) == Len(LineText(ln))
LineWords(ln) == WordCount(LineText(ln))

RECURSIVE SumLen(_)
SumLen(text) == IF text = <<>> THEN 0 ELSE LineLen(Head(text)) + SumLen(Tail(text))
\* len(s) of lines joined by "\n"
CharLen(text) == IF text = <<>> THEN 0 ELSE SumLen(text) + Len(text) - 1

(***************************************************************************)
(* Section 2: hazard statements and the hazardous flag.                    *)
(***************************************************************************)
Null == "<None>"

IsBlank(ln) == ln.k = "blank" /\ ln.tok = NoTok /\ ln.num < 0

\* PATTERNS["haz_none"]: the three alternatives
HazNoneLexemes == {"Not classified as hazardous", "Non-hazardous substance",
                   "Does not meet the criteria for classification"}

\* \bhazard(?:ous|s)\b on the lower-cased text
HazardWordLexemes == {"Not classified as hazardous", "Non-hazardous substance",
                      "Hazardous chemical", "Physical hazards"}

\* PATTERNS["hazard_statement_line"]: a code and a description after it;
\* the entry made of them, f"{code} {desc}" (a bare code "H319" has no
\* description and is no match)
HCodeLexemes == {"H225 Highly flammable liquid and vapour",
                 "h319: Causes serious eye irritation"}
HCodeEntry(k) ==
    IF k = "h319: Causes serious eye irritation"
    THEN "H319 Causes serious eye irritation"
    ELSE k

\* Hazard\s*Statements?
HazardHeaderLexemes == {"Hazard statements"}

\* lines 522-528: one entry per line that matches hazard_statement_line
RECURSIVE CodedEntries(_)
CodedEntries(text) ==
    IF text = <<>> THEN <<>>
    ELSE (IF Head(text).k \in HCodeLexemes THEN <<HCodeEntry(Head(text).k)>> ELSE <<>>)
            \o CodedEntries(Tail(text))

\* lines 531-540: after a "Hazard statements" line, every line up to the
\* first blank one
RECURSIVE CaptureAfterHeader(_, _)
CaptureAfterHeader(text, capture) ==
    IF text = <<>> THEN <<>>
    ELSE IF Head(text).k \in HazardHeaderLexemes
         THEN CaptureAfterHeader(Tail(text), TRUE)
    ELSE IF capture
         THEN (IF IsBlank(Head(text)) THEN <<>>
               ELSE <<LineText(Head(text))>> \o CaptureAfterHeader(Tail(text), TRUE))
    ELSE CaptureAfterHeader(Tail(text), FALSE)

ExtractHazardStatements(s2) ==
    LET coded == CodedEntries(s2)
    IN IF coded # <<>> THEN coded ELSE CaptureAfterHeader(s2, FALSE)

HasLexeme(text, lexemes) == \E i \in 1..Len(text) : text[i].k \in lexemes

\* _is_hazardous with the confidences written as percentages
IsHazardousPercent(s2, statements) ==
    IF HasLexeme(s2, HazNoneLexemes) THEN [flag |-> FALSE, conf |-> 100]
    ELSE IF statements # <<>> THEN [flag |-> TRUE, conf |-> 90]
    ELSE IF HasLexeme(s2, HazardWordLexemes) THEN [flag |-> TRUE, conf |-> 50]
    ELSE [flag |-> FALSE, conf |-> 20]

\* _is_hazardous with the statements checked before the negation phrase
IsHazardousStatementsFirst(s2, statements) ==
    IF statements # <<>> THEN [flag |-> TRUE, conf |-> 9]
    ELSE IF HasLexeme(s2, HazNoneLexemes) THEN [flag |-> FALSE, conf |-> 10]
    ELSE IF HasLexeme(s2, HazardWordLexemes) THEN [flag |-> TRUE, conf |-> 5]
    ELSE [flag |-> FALSE, conf |-> 2]

IsHazardous(s2, statements) ==
    IF HasLexeme(s2, HazNoneLexemes) THEN [flag |-> FALSE, conf |-> 10]
    ELSE IF statements # <<>> THEN [flag |-> TRUE, conf |-> 9]
    ELSE IF HasLexeme(s2, HazardWordLexemes) THEN [flag |-> TRUE, conf |-> 5]
    ELSE [flag |-> FALSE, conf |-> 2]

(***************************************************************************)
(* Section 14: the dangerous-goods tuple.                                  *)
(***************************************************************************)
\* not\s+(?:subject|regulated) | not\s+classified\s+as\s+dangerous\s+goods
DgNoneLexemes == {"Not regulated for transport", "Not subject to ADR",
                  "Not classified as dangerous goods"}
UnLexemes == {"UN 1170", "UN No.: 1993"}
ClassLexemes == {"Class 3", "Hazard Class: 8"}
PgLexemes == {"Packing Group II", "PG: III"}
SubsLexemes == {"Subsidiary Risk: 6.1"}

\* group(1) of the match on a lexeme
Capture(k) ==
    CASE k = "UN 1170" -> "1170"
      [] k = "UN No.: 1993" -> "1993"
      [] k = "Class 3" -> "3"
      [] k = "Hazard Class: 8" -> "8"
      [] k = "Packing Group II" -> "II"
      [] k = "PG: III" -> "III"
      [] k = "Subsidiary Risk: 6.1" -> "6.1"
      [] OTHER -> Null

\* re.search(...).group(1) for a pattern given by its lexemes; Null for None
FirstCapture(text, lexemes) ==
    IF HasLexeme(text, lexemes)
    THEN Capture(text[CHOOSE i \in 1..Len(text) :
                         /\ text[i].k \in lexemes
                         /\ \A h \in 1..(i - 1) : text[h].k \notin lexemes].k)
    ELSE Null

\* (sect14 or "").strip() is empty
IsEmptyText(text) == \A i \in 1..Len(text) : IsBlank(text[i])

Count(un, cls, pg) ==
    (IF un # Null THEN 1 ELSE 0) + (IF cls # Null THEN 1 ELSE 0)
        + (IF pg # Null THEN 1 ELSE 0)

\* lines 699-707 with full confidence kept for a complete triple only
DgConfidenceAllThree(un, cls, pg) ==
    IF ~(un # Null \/ cls # Null \/ pg # Null) THEN 0
    ELSE IF un # Null /\ cls # Null /\ pg # Null THEN 10
    ELSE IF Count(un, cls, pg) >= 2 THEN 8
    ELSE 6

\* lines 699-707 with the "any two signals" branch left out
DgConfidenceNoPair(un, cls, pg) ==
    IF ~(un # Null \/ cls # Null \/ pg # Null) THEN 0
    ELSE IF un # Null /\ cls # Null THEN 10
    ELSE 6

\* lines 697-707: the confidence of the extracted items, in tenths
DgConfidence(un, cls, pg) ==
    IF ~(un # Null \/ cls # Null \/ pg # Null) THEN 0
    ELSE IF un # Null /\ cls # Null THEN 10
    ELSE IF Count(un, cls, pg) >= 2 THEN 8
    ELSE 6

\* line 559: 1.0 if (un and dg_class) else 0.8 if (un or dg_class) and pg else 0.6
DgConfidenceOld(un, cls, pg) ==
    IF ~(un # Null \/ cls # Null \/ pg # Null) THEN 0
    ELSE IF un # Null /\ cls # Null THEN 10
    ELSE IF (un # Null \/ cls # Null) /\ pg # Null THEN 8
    ELSE 6

DgTuple(flag, cls, pg, un, conf, subs) ==
    [is_dg |-> flag, dg_class |-> cls, pg |-> pg, un |-> un, conf |-> conf, subs |-> subs]

\* a tuple that looks at the negation phrase only when no identifier is found
DgTupleIdentifiersFirst(s14) ==
    IF IsEmptyText(s14) THEN DgTuple(FALSE, Null, Null, Null, 0, Null)
    ELSE IF \/ HasLexeme(s14, UnLexemes) \/ HasLexeme(s14, ClassLexemes)
            \/ HasLexeme(s14, PgLexemes)
    THEN DgTuple(TRUE, FirstCapture(s14, ClassLexemes), FirstCapture(s14, PgLexemes),
                 FirstCapture(s14, UnLexemes),
                 DgConfidence(FirstCapture(s14, UnLexemes), FirstCapture(s14, ClassLexemes),
                              FirstCapture(s14, PgLexemes)),
                 FirstCapture(s14, SubsLexemes))
    ELSE IF HasLexeme(s14, DgNoneLexemes) THEN DgTuple(FALSE, Null, Null, Null, 10, Null)
    ELSE DgTuple(FALSE, Null, Null, Null, 0, FirstCapture(s14, SubsLexemes))

DangerousGoodsTupleImproved(s14) ==
    IF IsEmptyText(s14) THEN DgTuple(FALSE, Null, Null, Null, 0, Null)
    ELSE IF HasLexeme(s14, DgNoneLexemes) THEN DgTuple(FALSE, Null, Null, Null, 10, Null)
    ELSE LET un == FirstCapture(s14, UnLexemes)
             cls == FirstCapture(s14, ClassLexemes)
             pg == FirstCapture(s14, PgLexemes)
             subs == FirstCapture(s14, SubsLexemes)
         IN DgTuple(un # Null \/ cls # Null \/ pg # Null, cls, pg, un,
                    DgConfidence(un, cls, pg), subs)

DangerousGoodsTuple(s14) ==
    IF IsEmptyText(s14) THEN DgTuple(FALSE, Null, Null, Null, 0, Null)
    ELSE IF HasLexeme(s14, DgNoneLexemes) THEN DgTuple(FALSE, Null, Null, Null, 10, Null)
    ELSE LET un == FirstCapture(s14, UnLexemes)
             cls == FirstCapture(s14, ClassLexemes)
             pg == FirstCapture(s14, PgLexemes)
             subs == FirstCapture(s14, SubsLexemes)
         IN DgTuple(un # Null \/ cls # Null \/ pg # Null, cls, pg, un,
                    DgConfidenceOld(un, cls, pg), subs)

(***************************************************************************)
(* Text acquisition: extract_text_from_pdf.                                *)
(*                                                                         *)
(* A text is [lines, len, by]: its lines, its length in characters and the *)
(* library that produced it.  What a library does on the given bytes is    *)
(* [st, text] with st "import_error" (the import fails), "raises" (the     *)
(* library raises on the bytes) or "text".  A call of one of the wrappers  *)
(* yields [kind, text] with kind "str", "none" (None) or "raise" (an       *)
(* exception leaves the wrapper).                                          *)
(***************************************************************************)
MinChars == 800

Extractors == <<"fitz", "pdfplumber", "pypdf">>
Libraries == {"fitz", "pdfplumber", "pypdf", "ocr"}

EmptyText == [lines |-> <<>>, len |-> 0, by |-> ""]
Str(t) == [kind |-> "str", text |-> t]
None == [kind |-> "none", text |-> EmptyText]
Raise == [kind |-> "raise", text |-> EmptyText]

\* a wrapper whose second try block lets the library's exception through
ExtractTextLibUnguarded(o) ==
    IF o.st = "import_error" THEN None
    ELSE IF o.st = "raises" THEN Raise
    ELSE Str(o.text)

\* _extract_text_fitz, _extract_text_pdfplumber, _extract_text_pypdf
ExtractTextLib(o) ==
    IF o.st = "import_error" THEN None
    ELSE IF o.st = "raises" THEN None
    ELSE Str(o.text)

\* the fallback without the test of line 390
OcrFallbackPagesUngated(o, dbg) ==
    IF o.st = "import_error" THEN None
    ELSE IF o.st = "raises" THEN None
    ELSE Str(o.text)

\* _ocr_fallback_pages
OcrFallbackPages(o, dbg) ==
    IF ~dbg THEN None
    ELSE IF o.st = "import_error" THEN None
    ELSE IF o.st = "raises" THEN None
    ELSE Str(o.text)

\* "text and ...": a non-empty str
Truthy(v) == v.kind = "str" /\ v.text.len > 0

Returned(t, calls) == [text |-> t, raised |-> FALSE, calls |-> calls]
Raised(calls) == [text |-> EmptyText, raised |-> TRUE, calls |-> calls]

\* lines 428-430
OcrLast(out, dbg, calls) ==
    LET v == OcrFallbackPages(out["ocr"], dbg)
    IN IF v.kind = "raise" THEN Raised(Append(calls, "ocr"))
       ELSE Returned(IF Truthy(v) THEN v.text ELSE EmptyText, Append(calls, "ocr"))

\* lines 421-427: the second loop
RECURSIVE SecondPass(_, _, _, _)
SecondPass(out, dbg, i, calls) ==
    IF i > Len(Extractors) THEN OcrLast(out, dbg, calls)
    ELSE LET v == ExtractTextLib(out[Extractors[i]])
             called == Append(calls, Extractors[i])
         IN IF v.kind = "raise" THEN Raised(called)
            ELSE IF Truthy(v)
                 THEN IF v.text.len < MinChars
                      THEN LET w == OcrFallbackPages(out["ocr"], dbg)
                           IN IF w.kind = "raise" THEN Raised(Append(called, "ocr"))
                              ELSE Returned(IF Truthy(w) THEN w.text ELSE v.text,
                                            Append(called, "ocr"))
                      ELSE Returned(v.text, called)
            ELSE SecondPass(out, dbg, i + 1, called)

\* a first loop that accepts any text that is not empty
RECURSIVE FirstPassAnyText(_, _, _, _)
FirstPassAnyText(out, dbg, i, calls) ==
    IF i > Len(Extractors) THEN SecondPass(out, dbg, 1, calls)
    ELSE IF Truthy(ExtractTextLib(out[Extractors[i]]))
         THEN Returned(ExtractTextLib(out[Extractors[i]]).text,
                       Append(calls, Extractors[i]))
    ELSE FirstPassAnyText(out, dbg, i + 1, Append(calls, Extractors[i]))

\* lines 416-419: the first loop
RECURSIVE FirstPass(_, _, _, _)
FirstPass(out, dbg, i, calls) ==
    IF i > Len(Extractors) THEN SecondPass(out, dbg, 1, calls)
    ELSE LET v == ExtractTextLib(out[Extractors[i]])
             called == Append(calls, Extractors[i])
         IN IF v.kind = "raise" THEN Raised(called)
            ELSE IF Truthy(v) /\ v.text.len >= MinChars THEN Returned(v.text, called)
            ELSE FirstPass(out, dbg, i + 1, called)

ExtractTextFromPdf(out, dbg) == FirstPass(out, dbg, 1, <<>>)

\* _ocr_fallback_pages as extract_text_from_pdf called it (calls holds
\* "ocr"): whether the recognition ran (lines 398-407) and whether a page
\* image was saved (lines 404-405).  Line 390 returns before either when
\* debug mode is off; a failed import (lines 392-397) returns before the
\* pages are made; a raise (lines 408-410) comes before or after the first
\* image is saved; no text comes from no page or from pages without text.
NoOcr == [ran |-> FALSE, images |-> FALSE]
OcrEffects(o, dbg, calls) ==
    IF ~(\E i \in 1..Len(calls) : calls[i] = "ocr") \/ ~dbg \/ o.st = "import_error"
    THEN {NoOcr}
    ELSE IF o.st = "raises" \/ o.text.len = 0
    THEN {[ran |-> TRUE, images |-> b] : b \in BOOLEAN}
    ELSE {[ran |-> TRUE, images |-> TRUE]}

(***************************************************************************)
(* _split_sections.  A line that starts with a number (num is not -1) or   *)
(* with a number word starts as a header.  The                             *)
(* body of a header runs from the rest of its line to the line before the  *)
(* next header line; when the rest of the header line is empty, the \s*    *)
(* after the header runs on over the line break, and the next line that is *)
(* not blank belongs to the body whatever it starts with.                  *)
(***************************************************************************)
\* SECTION_WORDS in the order of the dictionary, which is the order of the
\* alternatives of word_pat; the value of the n-th word is n
SectionWords == <<"one", "two", "three", "four", "five", "six", "seven", "eight",
                  "nine", "ten", "eleven", "twelve", "thirteen", "fourteen",
                  "fifteen", "sixteen">>

SectionWordsUpper == <<"ONE", "TWO", "THREE", "FOUR", "FIVE", "SIX", "SEVEN", "EIGHT",
                       "NINE", "TEN", "ELEVEN", "TWELVE", "THIRTEEN", "FOURTEEN",
                       "FIFTEEN", "SIXTEEN">>

\* re.I: the text starts with the word lo, each letter in either case (up
\* is lo in capitals)
StartsWithNoCase(s, lo, up) ==
    /\ Len(s) >= Len(lo)
    /\ \A i \in 1..Len(lo) :
           SubSeq(s, i, i) = SubSeq(lo, i, i) \/ SubSeq(s, i, i) = SubSeq(up, i, i)
StartsWithWord(s, n) == StartsWithNoCase(s, SectionWords[n], SectionWordsUpper[n])

\* \s*(?:SECTION|Section)?\s* at the start of a line
AfterSection(s) ==
    IF StartsWithNoCase(s, "section", "SECTION") THEN LStrip(SubSeq(s, 8, Len(s))) ELSE s

\* (?P<word>one|two|...): the first alternative that matches where the
\* text starts (0 for none); nothing is required after the word
WordIndex(s) ==
    IF \E n \in 1..Len(SectionWords) : StartsWithWord(s, n)
    THEN CHOOSE n \in 1..Len(SectionWords) :
             /\ StartsWithWord(s, n)
             /\ \A h \in 1..(n - 1) : ~StartsWithWord(s, h)
    ELSE 0
WordHeader(k) == WordIndex(AfterSection(KText(k)))

\* the number a line is a header of (-1 when it is none): its leading
\* digits, or SECTION_WORDS.get(word.lower())
HeaderNum(ln) ==
    IF ln.num >= 0 THEN ln.num
    ELSE IF WordHeader(ln.k) > 0 THEN WordHeader(ln.k)
    ELSE -1

\* [\.:\)]?\s* after the number, then the body
AfterPunct(v) ==
    IF StartsWith(v, ".") \/ StartsWith(v, ":") \/ StartsWith(v, ")")
    THEN SubSeq(v, 2, Len(v)) ELSE v
AfterWord(s, n) == LStrip(AfterPunct(SubSeq(s, Len(SectionWords[n]) + 1, Len(s))))
WordRest(k) == AfterWord(AfterSection(KText(k)), WordHeader(k))

Remainder(ln) ==
    IF ln.num >= 0 \/ WordHeader(ln.k) = 0 THEN Line(-1, ln.k, ln.tok)
    ELSE IF WordRest(ln.k) = "" THEN Line(-1, "blank", ln.tok)
    ELSE Line(-1, WordRest(ln.k), ln.tok)

RECURSIVE StripTrailing(_)
StripTrailing(body) ==
    IF body # <<>> /\ IsBlank(body[Len(body)])
    THEN StripTrailing(SubSeq(body, 1, Len(body) - 1))
    ELSE body

\* a store that keeps the body captured last
StoreLast(acc, num, body) ==
    [n \in DOMAIN acc \cup {num} |-> IF n = num THEN StripTrailing(body) ELSE acc[n]]

\* line 453: the first body of a number, or a strictly longer one
Store(acc, num, body) ==
    LET b == StripTrailing(body)
    IN IF num \notin DOMAIN acc \/ CharLen(b) > CharLen(acc[num])
       THEN [n \in DOMAIN acc \cup {num} |-> IF n = num THEN b ELSE acc[n]]
       ELSE acc

RECURSIVE Scan(_, _, _, _)
Scan(lines, cur, body, acc) ==
    IF lines = <<>> THEN (IF cur < 0 THEN acc ELSE Store(acc, cur, body))
    ELSE LET ln == Head(lines)
             rest == Tail(lines)
         IN IF cur >= 0 /\ body = <<>>
            THEN (IF IsBlank(ln) THEN Scan(rest, cur, body, acc)
                  ELSE Scan(rest, cur, <<ln>>, acc))
            ELSE IF HeaderNum(ln) >= 0
            THEN Scan(rest, HeaderNum(ln),
                      IF IsBlank(Remainder(ln)) THEN <<>> ELSE <<Remainder(ln)>>,
                      IF cur < 0 THEN acc ELSE Store(acc, cur, body))
            ELSE IF cur >= 0 THEN Scan(rest, cur, Append(body, ln), acc)
            ELSE Scan(rest, cur, body, acc)

\* sec.finditer(text): the matches in order, each with its number and its
\* stripped body
RECURSIVE Captures(_, _, _)
Captures(lines, cur, body) ==
    IF lines = <<>>
    THEN (IF cur < 0 THEN <<>> ELSE <<[num |-> cur, body |-> StripTrailing(body)]>>)
    ELSE IF cur >= 0 /\ body = <<>>
    THEN (IF IsBlank(Head(lines)) THEN Captures(Tail(lines), cur, body)
          ELSE Captures(Tail(lines), cur, <<Head(lines)>>))
    ELSE IF HeaderNum(Head(lines)) >= 0
    THEN (IF cur < 0 THEN <<>> ELSE <<[num |-> cur, body |-> StripTrailing(body)]>>)
         \o Captures(Tail(lines), HeaderNum(Head(lines)),
                     IF IsBlank(Remainder(Head(lines))) THEN <<>>
                     ELSE <<Remainder(Head(lines))>>)
    ELSE IF cur >= 0 THEN Captures(Tail(lines), cur, Append(body, Head(lines)))
    ELSE Captures(Tail(lines), cur, body)

NoSections == [n \in {} |-> <<>>]
SplitSections(text) == Scan(text, -1, <<>>, NoSections)

\* sections.get(n, "")
Get(secs, n) == IF n \in DOMAIN secs THEN secs[n] ELSE <<>>

\* _trim_excerpt: the first len characters of the body's lines joined by
\* single blanks; None ([of |-> <<>>, len |-> 0]) for an empty body
ExcerptMax == 900
NoExcerpt == [of |-> <<>>, len |-> 0]
TrimExcerpt(body) ==
    LET kept == SelectSeq(body, LAMBDA ln : ~IsBlank(ln))
    IN [of |-> kept,
        len |-> IF CharLen(kept) > ExcerptMax THEN ExcerptMax ELSE CharLen(kept)]
Excerpt(body) == IF body = <<>> THEN NoExcerpt ELSE TrimExcerpt(body)

(***************************************************************************)
(* Labelled values.  A string an extractor returns is a piece of a line    *)
(* and is held as a line; NoStr is None.                                   *)
(***************************************************************************)
Text1(k) == Line(-1, k, NoTok)
NoStr == Text1(Null)
MkStr(v, tok) == Line(-1, IF v = "" THEN "blank" ELSE v, tok)

\* the text after the separator "\s*[:\-]?\s*" that follows a label
AfterSep(v) ==
    IF StartsWith(v, ":") \/ StartsWith(v, "-") THEN LStrip(SubSeq(v, 2, Len(v))) ELSE v
StripSep(v) == AfterSep(LStrip(v))

\* the label of labels that matches first in the lexeme of line ln ("" when
\* none does)
LabelIn(labels, ln) ==
    LET k == KText(ln.k)
        here == {l \in labels : Contains(k, l)}
    IN IF here = {} THEN ""
       ELSE CHOOSE l \in here :
                \A m \in here :
                    \/ IndexOf(k, l) < IndexOf(k, m)
                    \/ IndexOf(k, l) = IndexOf(k, m) /\ Len(l) >= Len(m)

\* the last character of s
LastChar(s) == SubSeq(s, Len(s), Len(s))

\* the group "(.+)" / "([^,\n]+)" behind the label on line i: the rest of
\* the line, or (the separator's \s* running over the line break) the next
\* line that is not blank; when nothing follows, the optional separator
\* character itself (the group needs one character and "[:\-]?" gives its
\* own back); NoStr when the text ends with the label
ValueAt(labels, text, i) ==
    LET l == LabelIn(labels, text[i])
        k == KText(text[i].k)
        r == SubSeq(k, IndexOf(k, l) + Len(l), Len(k))
        v == StripSep(r)
        j == NextNonBlank(text, i)
    IN IF l = "" THEN NoStr
       ELSE IF v # "" \/ text[i].tok # NoTok THEN MkStr(v, text[i].tok)
       ELSE IF j # 0 THEN text[j]
       ELSE IF r # "" THEN Text1(LastChar(r))
       ELSE NoStr

\* pattern.search(text).group(1) for a labelled pattern; NoStr for no match
FirstValue(labels, text) ==
    IF \E i \in 1..Len(text) : ValueAt(labels, text, i) # NoStr
    THEN ValueAt(labels, text, CHOOSE i \in 1..Len(text) :
             /\ ValueAt(labels, text, i) # NoStr
             /\ \A h \in 1..(i - 1) : ValueAt(labels, text, h) = NoStr)
    ELSE NoStr

(***************************************************************************)
(* _extract_vendor_improved                                                *)
(***************************************************************************)
PreparedByLabels == {"Prepared by", "Issued by"}
PreparedLabels == {"Prepared"}
SupplierLabels == {"Supplier", "Company", "Manufacturer", "Distributor"}
ContactWords == {"Address", "Street", "Road", "Tel", "Phone", "Email", "Website",
                 "Emergency", "address", "street", "road", "tel", "phone",
                 "email", "website", "emergency"}
DateWords == {"Date", "date", "DATE"}
Block13Heads == {"1.3 Details", "1.3 Supplier", "1.3 Manufacturer", "1.3 Company"}

\* lines 592-594 and 605-607
VendorOk(v, banned) ==
    /\ v # NoStr
    /\ ~ContainsAny(KText(v.k), banned)
    /\ LineWords(v) >= 2

\* lines 610-625: the block from the "1.3" heading to the first empty line
Block13(s1) ==
    IF \E i \in 1..Len(s1) : ContainsAny(KText(s1[i].k), Block13Heads)
    THEN LET i == CHOOSE n \in 1..Len(s1) :
                      /\ ContainsAny(KText(s1[n].k), Block13Heads)
                      /\ \A h \in 1..(n - 1) : ~ContainsAny(KText(s1[h].k), Block13Heads)
             stop == IF \E j \in (i + 1)..Len(s1) : IsBlank(s1[j])
                     THEN CHOOSE j \in (i + 1)..Len(s1) :
                              IsBlank(s1[j]) /\ \A h \in (i + 1)..(j - 1) : ~IsBlank(s1[h])
                     ELSE Len(s1) + 1
         IN SubSeq(s1, i, stop - 1)
    ELSE <<>>

\* what the loop over the block's lines returns at line i (NoStr: goes on)
Block13At(block, i) ==
    LET ln == block[i]
        lab == {l \in SupplierLabels : ln.num < 0 /\ StartsWith(KText(ln.k), l)}
        inl == IF lab = {} THEN NoStr
               ELSE LET l == CHOOSE x \in lab : TRUE
                        r == SubSeq(KText(ln.k), Len(l) + 1, Len(KText(ln.k)))
                        v == StripSep(r)
                    IN IF v # "" \/ ln.tok # NoTok THEN MkStr(v, ln.tok)
                       ELSE IF r # "" THEN Text1(LastChar(r))
                       ELSE NoStr
    IN IF lab = {} THEN NoStr
       ELSE IF inl # NoStr /\ ~ContainsAny(KText(inl.k), ContactWords) THEN inl
       ELSE IF i + 1 <= Len(block) /\ LineWords(block[i + 1]) >= 2 THEN block[i + 1]
       ELSE NoStr

VendorFromBlock13(s1) ==
    LET block == Block13(s1)
    IN IF \E i \in 1..Len(block) : Block13At(block, i) # NoStr
       THEN Block13At(block, CHOOSE i \in 1..Len(block) :
                /\ Block13At(block, i) # NoStr
                /\ \A h \in 1..(i - 1) : Block13At(block, h) = NoStr)
       ELSE NoStr

ExtractVendorImproved(s1, s16, full) ==
    LET by == FirstValue(PreparedByLabels, s16)
        prep == FirstValue(PreparedLabels, s16)
        in1 == FirstValue(SupplierLabels, s1)
        inFull == FirstValue(SupplierLabels, full)
    IN IF s16 # <<>> /\ VendorOk(by, ContactWords \cup DateWords) THEN by
       ELSE IF s16 # <<>> /\ VendorOk(prep, ContactWords \cup DateWords) THEN prep
       ELSE IF VendorOk(in1, ContactWords) THEN in1
       ELSE IF VendorOk(inFull, ContactWords) THEN inFull
       ELSE VendorFromBlock13(s1)

(***************************************************************************)
(* _extract_product_name, _extract_product_use                             *)
(***************************************************************************)
ProductLabels == {"Product name", "Product identifier", "Trade name"}
TitleStopWords == {"Safety Data Sheet", "safety data sheet", "SAFETY DATA SHEET",
                   "Revision", "revision", "REVISION",
                   "Version", "version", "VERSION"}
UseLabels == {"Recommended use", "Use of the substance", "Uses of the substance",
              "Use of the substance/mixture", "Uses of the substance/mixture",
              "Product use"}

ExtractProductName(s1, text) ==
    LET labelled == FirstValue(ProductLabels, s1)
    IN IF labelled # NoStr THEN labelled
       ELSE IF /\ s1 # <<>>
               /\ LineWords(s1[1]) >= 2 /\ LineWords(s1[1]) <= 12
               /\ ~ContainsAny(KText(s1[1].k), TitleStopWords)
            THEN s1[1]
       ELSE FirstValue(ProductLabels, text)

ExtractProductUse(s1) == FirstValue(UseLabels, s1)

(***************************************************************************)
(* _extract_signal_word, _extract_precautionary_statements,                *)
(* _extract_cas_numbers, _extract_proper_shipping_name                     *)
(***************************************************************************)
SignalLabels == {"Signal word", "Signal words"}
SignalWords == {"Danger", "Warning", "DANGER", "WARNING", "danger", "warning"}

\* group(1) of the signal_word pattern whose label is on line i
SignalAt(text, i) ==
    LET v == ValueAt(SignalLabels, text, i)
        ws == {w \in SignalWords : v # NoStr /\ v.num < 0 /\ StartsWith(KText(v.k), w)}
    IN IF ws = {} THEN NoStr ELSE Text1(CHOOSE w \in ws : TRUE)

ExtractSignalWord(s2) ==
    IF \E i \in 1..Len(s2) : SignalAt(s2, i) # NoStr
    THEN SignalAt(s2, CHOOSE i \in 1..Len(s2) :
             SignalAt(s2, i) # NoStr /\ \A h \in 1..(i - 1) : SignalAt(s2, h) = NoStr)
    ELSE NoStr

\* precautionary_statements: a code and its description up to the full stop
\* that ends the lexeme; the entry is f"{code} {desc}" without the full stop
PCodeLexemes == {"P210 Keep away from heat."}
PCodeEntry(k) == SubSeq(k, 1, Len(k) - 1)

RECURSIVE ExtractPrecautionaryStatements(_)
ExtractPrecautionaryStatements(s2) ==
    IF s2 = <<>> THEN <<>>
    ELSE (IF Head(s2).k \in PCodeLexemes THEN <<PCodeEntry(Head(s2).k)>> ELSE <<>>)
            \o ExtractPrecautionaryStatements(Tail(s2))

\* cas_number: the numbers in first-seen order, each once
CasLexemes == {"CAS 64-17-5", "CAS 67-63-0"}
CasOf(k) == SubSeq(k, 5, Len(k))

\* the loop without the test "cas not in cas_numbers"
RECURSIVE CasFromKeepsRepeats(_, _)
CasFromKeepsRepeats(text, seen) ==
    IF text = <<>> THEN seen
    ELSE CasFromKeepsRepeats(Tail(text),
             IF Head(text).k \in CasLexemes THEN Append(seen, CasOf(Head(text).k))
             ELSE seen)

RECURSIVE CasFrom(_, _)
CasFrom(text, seen) ==
    IF text = <<>> THEN seen
    ELSE LET k == Head(text).k
             dup == \E i \in 1..Len(seen) : seen[i] = CasOf(k)
         IN CasFrom(Tail(text),
                    IF k \in CasLexemes /\ ~dup THEN Append(seen, CasOf(k)) ELSE seen)
ExtractCasNumbers(text) == CasFrom(text, <<>>)

ShippingLabels == {"Proper Shipping Name", "PSN"}
AlcoholWords == {"ALCOHOL", "Alcohol", "alcohol"}
NosWords == {"N.O.S", "NOS", "n.o.s", "nos"}

\* lines 662-668: a line naming an alcohol "n.o.s."
ShippingLine(ln) ==
    /\ ContainsAny(KText(ln.k), AlcoholWords)
    /\ ContainsAny(KText(ln.k), NosWords)
    /\ LineLen(ln) > 5

ExtractProperShippingName(s14) ==
    LET labelled == FirstValue(ShippingLabels, s14)
    IN IF labelled # NoStr THEN labelled
       ELSE IF \E i \in 1..Len(s14) : ShippingLine(s14[i])
            THEN s14[CHOOSE i \in 1..Len(s14) :
                        ShippingLine(s14[i]) /\ \A h \in 1..(i - 1) : ~ShippingLine(s14[h])]
       ELSE NoStr

(***************************************************************************)
(* _parse_core: the record built from the text.                            *)
(***************************************************************************)
ExtractorNames == <<"vendor", "product_name", "product_use", "issue_date",
                    "hazard_statements", "is_hazardous", "signal_word",
                    "precautionary_statements", "cas_numbers",
                    "proper_shipping_name", "dangerous_goods_tuple">>

\* a bool as the record holds it
BoolStr(b) == IF b THEN "True" ELSE "False"

\* lines 724-768 for the text of the document, parsed on the day td
\* lines 745-768: the record of the extracted values
Build(s1, s2, s14, s16, text, td, statements, haz, tuple) ==
    [vendor |-> ExtractVendorImproved(s1, s16, text),
     product_name |-> ExtractProductName(s1, text),
     product_use |-> ExtractProductUse(s1),
     issue_date |-> ResolveIssueDate(s16, text, td),
     hazardous_substance |-> BoolStr(haz.flag),
     hazardous_confidence |-> haz.conf,
     hazard_statements |-> statements,
     dangerous_good |-> BoolStr(tuple.is_dg),
     dangerous_goods_confidence |-> tuple.conf,
     dangerous_goods_class |-> tuple.dg_class,
     packing_group |-> tuple.pg,
     subsidiary_risks |-> tuple.subs,
     un_number |-> tuple.un,
     signal_word |-> ExtractSignalWord(s2),
     precautionary_statements |-> ExtractPrecautionaryStatements(s2),
     cas_numbers |-> ExtractCasNumbers(text),
     proper_shipping_name |-> ExtractProperShippingName(s14),
     section_1_excerpt |-> Excerpt(s1),
     section_2_excerpt |-> Excerpt(s2),
     section_14_excerpt |-> Excerpt(s14),
     section_16_excerpt |-> Excerpt(s16)]

\* lines 730-743: the extractors on the four sections and the text
Extract(s1, s2, s14, s16, text, td, statements) ==
    Build(s1, s2, s14, s16, text, td, statements,
          IsHazardous(s2, statements), DangerousGoodsTupleImproved(s14))

\* lines 724-728: the four sections of the text
OfSections(secs, text, td) ==
    Extract(Get(secs, 1), Get(secs, 2), Get(secs, 14), Get(secs, 16), text, td,
            ExtractHazardStatements(Get(secs, 2)))

Record(text, td) == OfSections(SplitSections(text), text, td)

\* the value of rec while no record has been built
NoRec ==
    [vendor |-> NoStr, product_name |-> NoStr, product_use |-> NoStr,
     issue_date |-> NoTok, hazardous_substance |-> Null, hazardous_confidence |-> 0,
     hazard_statements |-> <<>>, dangerous_good |-> Null,
     dangerous_goods_confidence |-> 0, dangerous_goods_class |-> Null,
     packing_group |-> Null, subsidiary_risks |-> Null, un_number |-> Null,
     signal_word |-> NoStr, precautionary_statements |-> <<>>, cas_numbers |-> <<>>,
     proper_shipping_name |-> NoStr, section_1_excerpt |-> NoExcerpt,
     section_2_excerpt |-> NoExcerpt, section_14_excerpt |-> NoExcerpt,
     section_16_excerpt |-> NoExcerpt]

Pending == [kind |-> "pending", error |-> ""]
ReturnedRecord == [kind |-> "record", error |-> ""]
Propagated(e) == [kind |-> "error", error |-> e]

\* the extractors called before the one named f
RanBefore(f) ==
    IF \E i \in 1..Len(ExtractorNames) : ExtractorNames[i] = f
    THEN SubSeq(ExtractorNames, 1,
                (CHOOSE i \in 1..Len(ExtractorNames) : ExtractorNames[i] = f) - 1)
    ELSE ExtractorNames

\* what each library does on the bytes: a PDF with a text layer gives the
\* text to every library; a scanned PDF gives "" to the three extractors and
\* its text to the recognition; bytes that are no PDF make every library raise
TextOf(e, lines) ==
    IF lines = <<>> THEN EmptyText
    ELSE [lines |-> lines, len |-> CharLen(lines), by |-> e]
LibrariesOn(c) ==
    [e \in Libraries |->
        IF c.kind = "not_pdf" THEN [st |-> "raises", text |-> EmptyText]
        ELSE IF c.kind = "scanned" /\ e # "ocr" THEN [st |-> "text", text |-> EmptyText]
        ELSE [st |-> "text", text |-> TextOf(e, c.lines)]]

(***************************************************************************)
(* SpecDate: _resolve_issue_date applied to bounded inputs.                *)
(***************************************************************************)
Todays == {[y |-> 2023, m |-> 12, d |-> 15]}

\* 60 days after the parse date, 61 days after it, and no calendar date
TokOnBound == TextDate(13, "Feb", 2024)
TokPastBound == Slash(2, 14, 2024, 4)
TokBad == Slash(31, 2, 2023, 4)
DateTokens == {TokOnBound, TokPastBound, TokBad}

DateLines ==
    {Line(-1, k, t) : k \in {"Date of issue", "Revision Date", "plain"},
                      t \in DateTokens \cup {NoTok}}

NoHazard == [statements |-> <<>>, flag |-> FALSE, conf |-> 0]
NoDg == DgTuple(FALSE, Null, Null, Null, 0, Null)

DateIdle == today \in Todays /\ sect16 = <<>> /\ fullText = <<>> /\ issue = NoTok
HazIdle == sect2 = <<>> /\ hazard = NoHazard
DgIdle == sect14 = <<>> /\ dg = NoDg /\ dgOld = NoDg
NoAcq == Returned(EmptyText, <<>>)
NoContent == [kind |-> "pdf", lines |-> <<>>]
AcqIdle == ext = LibrariesOn(NoContent) /\ debug = FALSE /\ acq = NoAcq /\ ocr = NoOcr
FieldIdle == sect1 = <<>>
ParseIdle ==
    /\ entry = "" /\ src = "" /\ content = NoContent /\ faulty = "none"
    /\ sections = NoSections /\ ran = <<>> /\ rec = NoRec /\ outcome = Pending

InitDate ==
    /\ pc = "resolve"
    /\ today \in Todays
    /\ sect16 \in SeqUpTo(DateLines, MaxS16Lines)
    /\ fullText \in SeqUpTo(DateLines, MaxFullLines)
    /\ issue = NoTok
    /\ HazIdle /\ DgIdle /\ AcqIdle /\ ParseIdle /\ FieldIdle

ResolveCall ==
    /\ pc = "resolve"
    /\ issue' = ResolveIssueDate(sect16, fullText, today)
    /\ pc' = "resolved"
    /\ UNCHANGED <<today, sect16, fullText, hazVars, dgVars, acqVars, parseVars, fieldVars>>

NextDate == ResolveCall

SpecDate == InitDate /\ [][NextDate]_vars

(***************************************************************************)
(* SpecPriority: _resolve_issue_date applied to texts whose lines each     *)
(* carry one of the labels of the priority chain (or "Issued by") and a    *)
(* date.                                                                   *)
(***************************************************************************)
MaxP16Lines == 2
MaxPFullLines == 1

\* a date long before the parse date
TokEarly == Iso(2023, 4, 13)

\* one dated line for each label of the chain and for "Issued by"; "Date of
\* issue" also with a date 61 days ahead
PriorityLines ==
    {Line(-1, "Date of issue", TokEarly), Line(-1, "Date of issue", TokPastBound),
     Line(-1, "Revision Date", TokOnBound), Line(-1, "Issue Date", TokEarly),
     Line(-1, "Issued", TokEarly), Line(-1, "Issued by", TokOnBound),
     Line(-1, "Date Prepared", TokOnBound)}

InitPriority ==
    /\ pc = "resolve"
    /\ today \in Todays
    /\ sect16 \in SeqUpTo(PriorityLines, MaxP16Lines)
    /\ fullText \in SeqUpTo(PriorityLines, MaxPFullLines)
    /\ issue = NoTok
    /\ HazIdle /\ DgIdle /\ AcqIdle /\ ParseIdle /\ FieldIdle

SpecPriority == InitPriority /\ [][NextDate]_vars

(***************************************************************************)
(* SpecNormalise: _normalise_date applied to the slash dates a/b/y with a  *)
(* year of four or of two digits.                                          *)
(***************************************************************************)
MaxDayNumber == 31

\* a common year and a leap year, with four digits and with two
SlashYears == {<<2023, 4>>, <<2024, 4>>, <<23, 2>>, <<24, 2>>, <<99, 2>>}

SlashTokens ==
    {Slash(a, b, y[1], y[2]) : a \in 1..MaxDayNumber, b \in 1..MaxDayNumber, y \in SlashYears}

InitNormalise ==
    /\ pc = "normalise"
    /\ today \in Todays
    /\ sect16 \in {<<Line(-1, "blank", t)>> : t \in SlashTokens}
    /\ fullText = <<>>
    /\ issue = NoTok
    /\ HazIdle /\ DgIdle /\ AcqIdle /\ ParseIdle /\ FieldIdle

NormaliseCall ==
    /\ pc = "normalise"
    /\ issue' = NormaliseDate(sect16[1].tok)
    /\ pc' = "normalised"
    /\ UNCHANGED <<today, sect16, fullText, hazVars, dgVars, acqVars, parseVars, fieldVars>>

NextNormalise == NormaliseCall

SpecNormalise == InitNormalise /\ [][NextNormalise]_vars

(***************************************************************************)
(* SpecHaz: _extract_hazard_statements and _is_hazardous applied to        *)
(* bounded section 2 bodies.                                               *)
(***************************************************************************)
HazLines ==
    {Line(-1, k, NoTok) :
        k \in {"H225 Highly flammable liquid and vapour", "H319",
               "Does not meet the criteria for classification",
               "Not classified as hazardous", "Hazardous chemical",
               "Hazard statements", "plain", "blank"}}

InitHaz ==
    /\ pc = "classify"
    /\ sect2 \in SeqUpTo(HazLines, MaxS2Lines)
    /\ hazard = NoHazard
    /\ DateIdle /\ DgIdle /\ AcqIdle /\ ParseIdle /\ FieldIdle

HazardCall ==
    /\ pc = "classify"
    /\ LET st == ExtractHazardStatements(sect2)
           h == IsHazardous(sect2, st)
       IN hazard' = [statements |-> st, flag |-> h.flag, conf |-> h.conf]
    /\ pc' = "classified"
    /\ UNCHANGED <<dateVars, sect2, dgVars, acqVars, parseVars, fieldVars>>

NextHaz == HazardCall

SpecHaz == InitHaz /\ [][NextHaz]_vars

(***************************************************************************)
(* SpecDG: the dangerous-goods tuple of bounded section 14 bodies.         *)
(***************************************************************************)
DgLines ==
    {Line(-1, k, NoTok) :
        k \in {"UN 1170", "Class 3", "Packing Group II", "Subsidiary Risk: 6.1",
               "Not regulated for transport", "plain", "blank"}}

InitDG ==
    /\ pc = "transport"
    /\ sect14 \in SeqUpTo(DgLines, MaxS14Lines)
    /\ dg = NoDg /\ dgOld = NoDg
    /\ DateIdle /\ HazIdle /\ AcqIdle /\ ParseIdle /\ FieldIdle

TransportCall ==
    /\ pc = "transport"
    /\ dg' = DangerousGoodsTupleImproved(sect14)
    /\ dgOld' = DangerousGoodsTuple(sect14)
    /\ pc' = "transported"
    /\ UNCHANGED <<dateVars, hazVars, sect14, acqVars, parseVars, fieldVars>>

NextDG == TransportCall

SpecDG == InitDG /\ [][NextDG]_vars

(***************************************************************************)
(* SpecAcquire: extract_text_from_pdf under every combination of what the  *)
(* three extractors and the recognition do.                                *)
(***************************************************************************)
\* text lengths on both sides of the 800 characters
Lengths == {0, MinChars - 1, MinChars}
SomeText(e, n) ==
    IF n = 0 THEN EmptyText
    ELSE [lines |-> <<Line(-1, "plain", NoTok)>>, len |-> n, by |-> e]
LibraryOutcomes(e) ==
    {[st |-> "import_error", text |-> EmptyText], [st |-> "raises", text |-> EmptyText]}
        \cup {[st |-> "text", text |-> SomeText(e, n)] : n \in Lengths}

InitAcquire ==
    /\ pc = "acquire"
    /\ ext \in {f \in [Libraries -> UNION {LibraryOutcomes(e) : e \in Libraries}] :
                   \A e \in Libraries : f[e] \in LibraryOutcomes(e)}
    /\ debug \in BOOLEAN
    /\ acq = NoAcq /\ ocr = NoOcr
    /\ DateIdle /\ HazIdle /\ DgIdle /\ ParseIdle /\ FieldIdle

ExtractTextCall ==
    /\ pc = "acquire"
    /\ acq' = ExtractTextFromPdf(ext, debug)
    /\ ocr' \in OcrEffects(ext["ocr"], debug, acq'.calls)
    /\ pc' = "acquired"
    /\ UNCHANGED <<dateVars, hazVars, dgVars, ext, debug, parseVars, fieldVars>>

NextAcquire == ExtractTextCall

SpecAcquire == InitAcquire /\ [][NextAcquire]_vars

(***************************************************************************)
(* Spec: the three entry points and _parse_core on bounded documents.      *)
(* SpecFault: the same with one field extractor whose code raises.         *)
(***************************************************************************)
MaxDocLines == 2

DocLines ==
    {Line(1, "Product name: Isocol Rubbing Alcohol", NoTok),
     Line(-1, "Supplier: Acme Chemicals Pty Ltd", NoTok),
     Line(2, "H225 Highly flammable liquid and vapour", NoTok),
     Line(2, "Not classified as hazardous", NoTok),
     Line(2, "blank", NoTok),
     Line(14, "UN 1170", NoTok),
     Line(-1, "Class 3", NoTok),
     Line(14, "Not regulated for transport", NoTok),
     Line(16, "Date of issue", TokOnBound),
     Line(-1, "plain", NoTok)}

Contents(n) ==
    {[kind |-> "not_pdf", lines |-> <<>>]}
        \cup {[kind |-> kd, lines |-> ls] : kd \in {"pdf", "scanned"},
                                            ls \in SeqUpTo(DocLines, n)}

Entries == {"parse_sds_bytes", "parse_sds_path", "parse_sds_pdf"}
Sources(e) ==
    CASE e = "parse_sds_path" -> {"ok", "file_not_found"}
      [] e = "parse_sds_pdf" -> {"ok", "transport_error", "http_error"}
      [] OTHER -> {"ok"}

InitParse(n) ==
    /\ pc = "call"
    /\ entry \in Entries
    /\ src \in Sources(entry)
    /\ content \in Contents(n)
    /\ ext = LibrariesOn(content)
    /\ debug \in BOOLEAN
    /\ acq = NoAcq /\ ocr = NoOcr
    /\ sections = NoSections /\ ran = <<>> /\ rec = NoRec /\ outcome = Pending
    /\ DateIdle /\ HazIdle /\ DgIdle /\ FieldIdle

Init == InitParse(MaxDocLines) /\ faulty = "none"

InitFault ==
    /\ InitParse(1)
    /\ faulty \in {ExtractorNames[i] : i \in 1..Len(ExtractorNames)}

Fails(e) ==
    /\ outcome' = Propagated(e)
    /\ pc' = "returned"
    /\ UNCHANGED <<dateVars, hazVars, dgVars, acqVars, entry, src, content, faulty,
                   sections, ran, rec, fieldVars>>

EntersParseCore ==
    /\ pc' = "parse_core"
    /\ UNCHANGED <<dateVars, hazVars, dgVars, acqVars, parseVars, fieldVars>>

\* parse_sds_bytes
ParseSdsBytes ==
    /\ pc = "call" /\ entry = "parse_sds_bytes"
    /\ EntersParseCore

\* parse_sds_path: open(path, "rb") and read
ParseSdsPath ==
    /\ pc = "call" /\ entry = "parse_sds_path"
    /\ IF src = "file_not_found" THEN Fails("FileNotFoundError") ELSE EntersParseCore

\* parse_sds_pdf: requests.get and raise_for_status
ParseSdsPdf ==
    /\ pc = "call" /\ entry = "parse_sds_pdf"
    /\ IF src = "transport_error" THEN Fails("RequestException")
       ELSE IF src = "http_error" THEN Fails("HTTPError")
       ELSE EntersParseCore

\* _parse_core: no call in it is guarded, an exception ends the parse at the
\* call that raises
ParseCore ==
    /\ pc = "parse_core"
    /\ acq' = ExtractTextFromPdf(ext, debug)
    /\ ocr' \in OcrEffects(ext["ocr"], debug, acq'.calls)
    /\ IF acq'.raised
       THEN /\ outcome' = Propagated("extract_text_from_pdf")
            /\ UNCHANGED <<dateVars, hazVars, dgVars, sections, ran, rec, fieldVars>>
       ELSE /\ fullText' = acq'.text.lines
            /\ sections' = SplitSections(fullText')
            /\ sect1' = Get(sections', 1)
            /\ sect16' = Get(sections', 16) /\ sect2' = Get(sections', 2)
            /\ sect14' = Get(sections', 14)
            /\ ran' = RanBefore(faulty)
            /\ IF faulty = "none"
               THEN /\ rec' = Record(fullText', today)
                    /\ outcome' = ReturnedRecord
                    /\ issue' = rec'.issue_date
                    /\ hazard' = [statements |-> rec'.hazard_statements,
                                  flag |-> rec'.hazardous_substance = "True",
                                  conf |-> rec'.hazardous_confidence]
                    /\ dg' = DangerousGoodsTupleImproved(sect14')
               ELSE /\ outcome' = Propagated(faulty)
                    /\ UNCHANGED <<rec, issue, hazard, dg>>
            /\ UNCHANGED <<today, dgOld>>
    /\ pc' = "returned"
    /\ UNCHANGED <<ext, debug, entry, src, content, faulty>>

Next == ParseSdsBytes \/ ParseSdsPath \/ ParseSdsPdf \/ ParseCore

Spec == Init /\ [][Next]_vars

SpecFault == InitFault /\ [][Next]_vars

(***************************************************************************)
(* SpecText: _split_sections and _extract_cas_numbers applied to bounded   *)
(* texts.                                                                  *)
(***************************************************************************)
MaxTextLines == 3

\* "14." / "14. UN 1170" / "16. ..." / "20. ...": header lines; lines with
\* a CAS number; a sentence; an empty line; lines that start with a
\* number word after "Section"
TextLines ==
    {Line(14, "blank", NoTok), Line(14, "UN 1170", NoTok),
     Line(16, "plain", NoTok), Line(20, "plain", NoTok),
     Line(-1, "CAS 64-17-5", NoTok), Line(-1, "CAS 67-63-0", NoTok),
     Line(-1, "plain", NoTok), Line(-1, "blank", NoTok),
     Line(-1, "Section Fourteen - Transport information", NoTok),
     Line(-1, "SECTION THIRTEEN: Disposal considerations", NoTok)}

InitText ==
    /\ pc = "text"
    /\ fullText \in SeqUpTo(TextLines, MaxTextLines)
    /\ today \in Todays /\ sect16 = <<>> /\ issue = NoTok
    /\ HazIdle /\ DgIdle /\ AcqIdle /\ ParseIdle /\ FieldIdle

SplitCall ==
    /\ pc = "text"
    /\ sections' = SplitSections(fullText)
    /\ pc' = "split"
    /\ UNCHANGED <<dateVars, hazVars, dgVars, acqVars, entry, src, content, faulty,
                   ran, rec, outcome, fieldVars>>

CasCall ==
    /\ pc = "text"
    /\ rec' = [rec EXCEPT !.cas_numbers = ExtractCasNumbers(fullText)]
    /\ pc' = "cas"
    /\ UNCHANGED <<dateVars, hazVars, dgVars, acqVars, entry, src, content, faulty,
                   sections, ran, outcome, fieldVars>>

NextText == SplitCall \/ CasCall

SpecText == InitText /\ [][NextText]_vars

(***************************************************************************)
(* SpecSignal: _extract_signal_word applied to bounded section 2 bodies.   *)
(***************************************************************************)
MaxSignalLines == 2

SignalLines ==
    {Line(-1, k, NoTok) :
        k \in {"Signal word: Danger", "Signal word: WARNING", "Signal words - warning",
               "Signal word: Dangerous when wet", "Signal word: Caution",
               "Signal word", "Signal word:", "Danger", "Warning", "plain", "blank"}}

InitSignal ==
    /\ pc = "section2"
    /\ sect2 \in SeqUpTo(SignalLines, MaxSignalLines)
    /\ hazard = NoHazard
    /\ DateIdle /\ DgIdle /\ AcqIdle /\ ParseIdle /\ FieldIdle

SignalWordCall ==
    /\ pc = "section2"
    /\ rec' = [rec EXCEPT !.signal_word = ExtractSignalWord(sect2)]
    /\ pc' = "signal"
    /\ UNCHANGED <<dateVars, hazVars, dgVars, acqVars, entry, src, content, faulty,
                   sections, ran, outcome, fieldVars>>

NextSignal == SignalWordCall

SpecSignal == InitSignal /\ [][NextSignal]_vars

(***************************************************************************)
(* SpecVendor: _extract_vendor_improved applied to bounded section 1       *)
(* bodies, with and without a "prepared by" line in section 16 and a       *)
(* supplier line elsewhere in the text.                                    *)
(* SpecUse: _extract_product_use applied to bounded section 1 bodies.      *)
(***************************************************************************)
MaxS1Lines == 3

\* the bodies are handed to the extractor as they stand (no segmenter before
\* it), so a line may start with digits without being a header
VendorLines ==
    {Line(-1, k, NoTok) :
        k \in {"1.3 Details", "Supplier: Acme", "Supplier: Acme Chemicals Pty Ltd",
               "Supplier", "Supplier:", "12 Main Street", "blank"}}

PreparedTexts ==
    {<<>>,
     <<Line(-1, "Prepared by: Acme Chemicals Pty Ltd", NoTok)>>,
     <<Line(-1, "Date Prepared", TokOnBound)>>}

ElsewhereTexts ==
    {<<>>, <<Line(-1, "Manufacturer: Bolt Industrial Supplies", NoTok)>>}

InitVendor ==
    /\ pc = "section1"
    /\ sect1 \in SeqUpTo(VendorLines, MaxS1Lines)
    /\ sect16 \in PreparedTexts
    /\ fullText \in ElsewhereTexts
    /\ today \in Todays /\ issue = NoTok
    /\ HazIdle /\ DgIdle /\ AcqIdle /\ ParseIdle

VendorCall ==
    /\ pc = "section1"
    /\ rec' = [rec EXCEPT !.vendor = ExtractVendorImproved(sect1, sect16, fullText)]
    /\ pc' = "vendor"
    /\ UNCHANGED <<dateVars, hazVars, dgVars, acqVars, entry, src, content, faulty,
                   sections, ran, outcome, fieldVars>>

NextVendor == VendorCall

SpecVendor == InitVendor /\ [][NextVendor]_vars

UseLines ==
    {Line(-1, k, NoTok) :
        k \in {"Formulation Item Number: 2NPK001", "Use", "Product use:", "Product use",
               "Recommended use: Hand sanitiser",
               "Antibacterial rub preparation for topical human use.", "blank"}}

InitUse ==
    /\ pc = "section1"
    /\ sect1 \in SeqUpTo(UseLines, MaxS1Lines)
    /\ DateIdle /\ HazIdle /\ DgIdle /\ AcqIdle /\ ParseIdle

ProductUseCall ==
    /\ pc = "section1"
    /\ rec' = [rec EXCEPT !.product_use = ExtractProductUse(sect1)]
    /\ pc' = "use"
    /\ UNCHANGED <<dateVars, hazVars, dgVars, acqVars, entry, src, content, faulty,
                   sections, ran, outcome, fieldVars>>

NextUse == ProductUseCall

SpecUse == InitUse /\ [][NextUse]_vars

(***************************************************************************)
(* Properties of a parse (Spec, SpecFault).                                *)
(***************************************************************************)
\* C1: in every record a parse returns both confidences lie in [0, 1]
\* (0..10 tenths).
C1_ConfidencesInRange ==
    pc = "returned" /\ outcome.kind = "record" =>
        /\ rec.hazardous_confidence >= 0 /\ rec.hazardous_confidence <= 10
        /\ rec.dangerous_goods_confidence >= 0 /\ rec.dangerous_goods_confidence <= 10

\* a record of a document without section 2 whose section 14 names a UN
\* number and a class: confidences 0.2 and 1.0
C1_RecordWithExtremes ==
    /\ pc = "returned" /\ outcome.kind = "record"
    /\ sect2 = <<>> /\ sect14 # <<>>
    /\ rec.hazardous_confidence = 2
    /\ rec.dangerous_goods_confidence = 10

OptionalFieldsNull ==
    /\ rec.vendor = NoStr /\ rec.product_name = NoStr /\ rec.product_use = NoStr
    /\ rec.issue_date = NoTok
    /\ rec.hazardous_substance = Null
    /\ rec.dangerous_goods_class = Null /\ rec.packing_group = Null
    /\ rec.subsidiary_risks = Null /\ rec.un_number = Null
    /\ rec.signal_word = NoStr /\ rec.proper_shipping_name = NoStr
    /\ rec.section_1_excerpt = NoExcerpt /\ rec.section_2_excerpt = NoExcerpt
    /\ rec.section_14_excerpt = NoExcerpt /\ rec.section_16_excerpt = NoExcerpt
ListFieldsEmpty ==
    /\ rec.hazard_statements = <<>>
    /\ rec.precautionary_statements = <<>>
    /\ rec.cas_numbers = <<>>

\* C2: when the acquired text is empty the parse returns a record, and in
\* it every optional field is null and every list field is empty.
C2_EmptyTextGivesNullRecord ==
    pc = "returned" /\ src = "ok" /\ acq.text = EmptyText =>
        /\ outcome.kind = "record"
        /\ OptionalFieldsNull
        /\ ListFieldsEmpty

\* C3: a failure to acquire the bytes of a PDF (file not found, transport
\* error, non-2xx response, content that is no PDF) ends the call with an
\* error and without a record.
C3_AcquisitionFailurePropagates ==
    pc = "returned" /\ (src # "ok" \/ content.kind = "not_pdf") =>
        outcome.kind = "error"

\* C4: when one field extractor raises, every other extractor still runs
\* and the parse returns a record.
C4_ExtractorsIsolated ==
    pc = "returned" /\ src = "ok" =>
        /\ outcome.kind = "record"
        /\ \A i \in 1..Len(ExtractorNames) :
              ExtractorNames[i] # faulty =>
                  \E j \in 1..Len(ran) : ran[j] = ExtractorNames[i]

(***************************************************************************)
(* Properties of the text acquisition (SpecAcquire).                       *)
(***************************************************************************)
\* C5: extract_text_from_pdf never raises; whatever the three extractors
\* and the recognition do (raise, fail to import, return nothing) it returns
\* a string: the empty one or the text of a library that gave one; a
\* library that fails counts as one that gave no text.
C5_NeverRaises ==
    pc = "acquired" =>
        /\ ~acq.raised
        /\ \/ acq.text = EmptyText
           \/ \E e \in Libraries : ext[e].st = "text" /\ acq.text = ext[e].text
        /\ \A e \in Libraries :
              ext[e].st # "text" =>
                  acq.text = ExtractTextFromPdf(
                      [ext EXCEPT ![e] = [st |-> "text", text |-> EmptyText]], debug).text

\* every extractor fails, the recognition raises in debug mode: ""
C5_AllFail ==
    /\ pc = "acquired"
    /\ ext["fitz"].st = "raises" /\ ext["pdfplumber"].st = "import_error"
    /\ ext["pypdf"].st = "raises" /\ ext["ocr"].st = "raises"
    /\ debug
    /\ ~acq.raised /\ acq.text = EmptyText

\* extractor i gives a text of at least 800 characters / a text that is
\* not empty
Sufficient(i) ==
    ext[Extractors[i]].st = "text" /\ ext[Extractors[i]].text.len >= MinChars
NonEmpty(i) ==
    ext[Extractors[i]].st = "text" /\ ext[Extractors[i]].text.len > 0

\* C18: the extractors are tried in the order fitz, pdfplumber, pypdf; the
\* first text of at least 800 characters is returned, also when an extractor
\* before it gave a shorter text; no extractor after it and no recognition
\* is called.
C18_FirstSufficientWins ==
    pc = "acquired" =>
        \A i \in 1..Len(Extractors) :
            Sufficient(i) /\ (\A h \in 1..(i - 1) : ~Sufficient(h)) =>
                /\ acq.text = ext[Extractors[i]].text
                /\ acq.calls = SubSeq(Extractors, 1, i)
                /\ ~ocr.ran

\* fitz gives 799 characters, pdfplumber 800: the text of pdfplumber is
\* returned and pypdf is not called
C18_ShortThenSufficient ==
    /\ pc = "acquired"
    /\ ext["fitz"].st = "text" /\ ext["fitz"].text.len = MinChars - 1
    /\ ext["pdfplumber"].st = "text" /\ ext["pdfplumber"].text.len = MinChars
    /\ ext["pypdf"].st = "text" /\ ext["pypdf"].text.len = MinChars
    /\ acq.text.by = "pdfplumber"
    /\ acq.calls = <<"fitz", "pdfplumber">>

\* C19: when no extractor gives 800 characters and one gives a text that is
\* not empty, the result is the first such text in priority order, with
\* debug mode on or off.
C19_FirstNonEmptyReturned ==
    pc = "acquired" /\ (\A h \in 1..Len(Extractors) : ~Sufficient(h)) =>
        \A i \in 1..Len(Extractors) :
            NonEmpty(i) /\ (\A h \in 1..(i - 1) : ~NonEmpty(h)) =>
                acq.text = ext[Extractors[i]].text

\* C20: with debug mode off the recognition does not run and no page image
\* is written, and the result is "" when the three extractors give nothing;
\* a text of the recognition is returned in debug mode only.
C20_OcrOnlyInDebug ==
    pc = "acquired" =>
        /\ ~debug => ~ocr.ran /\ ~ocr.images
        /\ ~debug /\ (\A i \in 1..Len(Extractors) : ~NonEmpty(i)) => acq.text = EmptyText
        /\ acq.text.by = "ocr" => debug

\* debug mode off, the extractors give nothing, the recognition would give
\* 800 characters: it is called, returns at line 390, and the result is ""
C20_GateClosed ==
    /\ pc = "acquired"
    /\ ~debug
    /\ \A i \in 1..Len(Extractors) : ~NonEmpty(i)
    /\ ext["ocr"].st = "text" /\ ext["ocr"].text.len = MinChars
    /\ acq.calls = <<"fitz", "pdfplumber", "pypdf", "fitz", "pdfplumber", "pypdf", "ocr">>
    /\ acq.text = EmptyText /\ ocr = NoOcr

(***************************************************************************)
(* Properties of the hazardous classification (SpecHaz).                   *)
(***************************************************************************)
HasNegation2 == \E i \in 1..Len(sect2) : sect2[i].k \in HazNoneLexemes
HasHazardWord == \E i \in 1..Len(sect2) : sect2[i].k \in HazardWordLexemes

\* C6: the classification is the first applicable rule of: negation phrase
\* in section 2 -> (false, 1.0), also when statements were extracted; else
\* statements non-empty -> (true, 0.9); else hazard keyword -> (true, 0.5);
\* else (false, 0.2).  Any section 2 holding "does not meet the criteria for
\* classification" gives (false, 1.0).
C6_RuleOrder ==
    pc = "classified" =>
        LET res == <<hazard.flag, hazard.conf>>
        IN /\ HasNegation2 => res = <<FALSE, 10>>
           /\ ~HasNegation2 /\ hazard.statements # <<>> => res = <<TRUE, 9>>
           /\ ~HasNegation2 /\ hazard.statements = <<>> /\ HasHazardWord
                 => res = <<TRUE, 5>>
           /\ ~HasNegation2 /\ hazard.statements = <<>> /\ ~HasHazardWord
                 => res = <<FALSE, 2>>
           /\ (\E i \in 1..Len(sect2) :
                  sect2[i].k = "Does not meet the criteria for classification")
                 => res = <<FALSE, 10>>

\* a negation phrase together with extracted statements: classified (false, 1.0)
C6_NegationOverStatements ==
    /\ pc = "classified"
    /\ \E i \in 1..Len(sect2) :
          sect2[i].k = "Does not meet the criteria for classification"
    /\ hazard.statements # <<>>
    /\ hazard.flag = FALSE /\ hazard.conf = 10

(***************************************************************************)
(* Properties of the dangerous-goods tuple (SpecDG).                       *)
(***************************************************************************)
HasNegation14 == \E i \in 1..Len(sect14) : sect14[i].k \in DgNoneLexemes
HasUn == \E i \in 1..Len(sect14) : sect14[i].k \in UnLexemes
HasClass == \E i \in 1..Len(sect14) : sect14[i].k \in ClassLexemes
HasPg == \E i \in 1..Len(sect14) : sect14[i].k \in PgLexemes
ExactlyOneKind ==
    (IF HasUn THEN 1 ELSE 0) + (IF HasClass THEN 1 ELSE 0) + (IF HasPg THEN 1 ELSE 0) = 1

\* C7 as stated: every section 14 with a UN number and a class gives
\* dangerous_good true with confidence 1.0, and every section 14 with exactly
\* one of UN number, class, packing group gives confidence 0.6.
C7_AsStated ==
    pc = "transported" =>
        /\ HasUn /\ HasClass => dg.is_dg /\ dg.conf = 10
        /\ ExactlyOneKind => dg.conf = 6

\* C7 amended: the same for every section 14 that holds no negation phrase.
C7_WithoutNegation ==
    pc = "transported" /\ ~HasNegation14 =>
        /\ HasUn /\ HasClass => dg.is_dg /\ dg.conf = 10
        /\ ExactlyOneKind => dg.conf = 6

\* a UN number and a class without packing group and without negation: 1.0
C7_UnAndClass ==
    /\ pc = "transported"
    /\ ~HasNegation14 /\ HasUn /\ HasClass /\ ~HasPg
    /\ dg.is_dg /\ dg.conf = 10

\* C8: without a negation phrase the confidence is a function of the items
\* extracted: 1.0 for UN number and class; else 0.8 for two of the three;
\* else 0.6 for one; 0.0 for none.
C8_ConfidenceTable ==
    pc = "transported" /\ ~HasNegation14 =>
        LET u == dg.un # Null
            c == dg.dg_class # Null
            p == dg.pg # Null
            n == (IF u THEN 1 ELSE 0) + (IF c THEN 1 ELSE 0) + (IF p THEN 1 ELSE 0)
        IN dg.conf = IF u /\ c THEN 10
                     ELSE IF n >= 2 THEN 8
                     ELSE IF n = 1 THEN 6
                     ELSE 0

\* class and packing group without a UN number: 0.8
C8_ClassAndPg ==
    /\ pc = "transported"
    /\ ~HasNegation14
    /\ dg.un = Null /\ dg.dg_class # Null /\ dg.pg # Null
    /\ dg.conf = 8

(***************************************************************************)
(* Properties of the issue-date resolver (SpecDate).                       *)
(***************************************************************************)
IsIsoDate(s) == s.shape = "iso" /\ ValidYMD(s.y, s.a, s.b)
TokensOf(text) == {text[i].tok : i \in 1..Len(text)}
Unparseable(t) == \A f \in 1..Len(Formats) : ~Strptime(t, Formats[f]).ok

\* C9: a returned ISO date is never later than the parse date plus 60 days;
\* a candidate beyond that is passed over.
C9_NotBeyondSixtyDays ==
    pc = "resolved" /\ IsIsoDate(issue) =>
        ToOrdinal(issue.y, issue.a, issue.b)
            <= ToOrdinal(today.y, today.m, today.d) + 60

\* the top-priority label carries a date 61 days ahead; the resolver passes
\* it over and returns the date exactly 60 days ahead
C9_PassedOver ==
    /\ pc = "resolved"
    /\ \E i \in 1..Len(sect16) :
          sect16[i].k = "Date of issue" /\ sect16[i].tok = TokPastBound
    /\ issue = Iso(2024, 2, 13)

\* C10: the result is null, an ISO date or a token of the input; a token of
\* the top-priority label that no format parses is normalised to itself and
\* is the result.
C10_RawTokenKept ==
    pc = "resolved" =>
        /\ \/ issue = NoTok
           \/ IsIsoDate(issue)
           \/ issue \in TokensOf(sect16) \cup TokensOf(fullText)
        /\ LET t == FindFirst("date_of_issue", sect16, fullText)
           IN t # NoTok /\ Unparseable(t) => NormaliseDate(t) = t /\ issue = t

\* the unparseable token 31/2/2023 is the result
C10_RawReturned ==
    /\ pc = "resolved"
    /\ Unparseable(TokBad)
    /\ issue = TokBad

\* no labelled pattern yields a candidate, and the search around the label
\* tokens of the full text finds nothing
NothingLabelled ==
    /\ \A i \in 1..Len(CandidatePatterns) :
           FindFirst(CandidatePatterns[i], sect16, fullText) = NoTok
    /\ NearestLabelDateAnywhere(fullText) = NoTok

\* line i holds the first date-shaped token of section 16
FirstTokenAt(i) ==
    sect16[i].tok # NoTok /\ \A h \in 1..(i - 1) : sect16[h].tok = NoTok

\* the token normalises to a calendar date not later than today + 60 days
WithinBound(t) ==
    /\ IsIsoDate(NormaliseDate(t))
    /\ ToOrdinal(NormaliseDate(t).y, NormaliseDate(t).a, NormaliseDate(t).b)
          <= ToOrdinal(today.y, today.m, today.d) + FutureDays

C11_NoHeaderInBody ==
    pc = "split" =>
        \A n \in DOMAIN sections :
            \A i \in 1..Len(sections[n]) : HeaderNum(sections[n][i]) < 0

\* C12: the segmenter's result has no key outside 1..16, and a section that
\* was not found reads as the empty body.
C12_KeysOneToSixteen ==
    pc = "split" =>
        /\ DOMAIN sections \subseteq 1..16
        /\ \A n \in 1..16 :
               (\A i \in 1..Len(fullText) : HeaderNum(fullText[i]) # n)
                   => Get(sections, n) = <<>>

\* the first line of the text that holds the CAS number x
FirstCasLine(x) ==
    CHOOSE i \in 1..Len(fullText) :
        /\ fullText[i].k \in CasLexemes /\ CasOf(fullText[i].k) = x
        /\ \A h \in 1..(i - 1) :
               ~(fullText[h].k \in CasLexemes /\ CasOf(fullText[h].k) = x)

\* C13: cas_numbers holds every CAS number of the text once, in the order
\* of the first occurrences.
C13_CasOnceInFirstSeenOrder ==
    pc = "cas" =>
        LET c == rec.cas_numbers
        IN /\ {c[i] : i \in 1..Len(c)}
                 = {CasOf(fullText[i].k) : i \in {j \in 1..Len(fullText) :
                                                     fullText[j].k \in CasLexemes}}
           /\ \A a, b \in 1..Len(c) : a # b => c[a] # c[b]
           /\ \A a, b \in 1..Len(c) : a < b => FirstCasLine(c[a]) < FirstCasLine(c[b])

\* 67-63-0, 64-17-5 and 67-63-0 again: two numbers, in that order
C13_RepeatedNumber ==
    /\ pc = "cas"
    /\ Len(fullText) = 3
    /\ fullText[1].k = "CAS 67-63-0" /\ fullText[2].k = "CAS 64-17-5"
    /\ fullText[3].k = "CAS 67-63-0"
    /\ rec.cas_numbers = <<"67-63-0", "64-17-5">>

(***************************************************************************)
(* Properties of the field extractors (SpecSignal, SpecVendor, SpecUse).   *)
(***************************************************************************)
\* C14: the signal word returned is null, "Danger" or "Warning", in exactly
\* that spelling.
C14_DangerOrWarning ==
    pc = "signal" => rec.signal_word \in {NoStr, Text1("Danger"), Text1("Warning")}

\* C15: a vendor returned has at least two words and holds no address or
\* contact word, whichever strategy gave it.
C15_VendorFiltered ==
    pc = "vendor" /\ rec.vendor # NoStr =>
        /\ LineWords(rec.vendor) >= 2
        /\ ~ContainsAny(LineText(rec.vendor), ContactWords)

\* the bare label "Use" on line i of section 1, with a value on the line
\* after it
BareUseAt(i) ==
    /\ sect1[i].k = "Use"
    /\ i + 1 <= Len(sect1) /\ ~IsBlank(sect1[i + 1])

\* C17: when the only use label of section 1 is a bare "Use" on a line of
\* its own, the product use is the text of the line that follows it.
C17_BareUseLabel ==
    pc = "use" =>
        \A i \in 1..Len(sect1) :
            /\ BareUseAt(i)
            /\ \A h \in 1..Len(sect1) : LabelIn(UseLabels, sect1[h]) = ""
            /\ \A h \in 1..(i - 1) : ~BareUseAt(h)
            => rec.product_use = sect1[i + 1]

(***************************************************************************)
(* Properties of the label priority chain (SpecPriority).                  *)
(***************************************************************************)
PriorityChain == <<{"Date of issue"}, {"Revision Date"}, {"Issue Date"},
                   {"Issued"}, {"Date Prepared"}>>

\* the date of the first line of the text that carries one of the labels
FirstLabelled(labels, text) ==
    IF \E i \in 1..Len(text) : text[i].k \in labels /\ text[i].tok # NoTok
    THEN text[CHOOSE i \in 1..Len(text) :
                 /\ text[i].k \in labels /\ text[i].tok # NoTok
                 /\ \A h \in 1..(i - 1) :
                        ~(text[h].k \in labels /\ text[h].tok # NoTok)].tok
    ELSE NoTok

\* the candidate of the n-th label: section 16 first, the whole text only
\* when section 16 has none
ChainCandidate(n) ==
    IF FirstLabelled(PriorityChain[n], sect16) # NoTok
    THEN FirstLabelled(PriorityChain[n], sect16)
    ELSE FirstLabelled(PriorityChain[n], fullText)

Acceptable(t) == t # NoTok /\ (Unparseable(t) \/ WithinBound(t))

\* C21: the result is the candidate of the first label of the chain Date of
\* issue, Revision Date, Issue Date, Issued (not "Issued by"), Date Prepared
\* whose candidate is acceptable, a label's candidate being its first match
\* in section 16 or, when section 16 has none, its first match in the whole
\* text.
C21_PriorityChain ==
    pc = "resolved" =>
        \A n \in 1..Len(PriorityChain) :
            /\ Acceptable(ChainCandidate(n))
            /\ \A h \in 1..(n - 1) : ~Acceptable(ChainCandidate(h))
            => issue = NormaliseDate(ChainCandidate(n))

\* "Issued" is dated inside section 16, after an "Issued by" line, and
\* "Revision Date" only outside it: the date of "Revision Date" is the result
C21_OutsideBeatsInside ==
    /\ pc = "resolved"
    /\ sect16 = <<Line(-1, "Issued by", TokOnBound), Line(-1, "Issued", TokEarly)>>
    /\ fullText = <<Line(-1, "Revision Date", TokOnBound)>>
    /\ issue = Iso(2024, 2, 13)

\* C22: the last fallback is exempt from the future-date check: when neither
\* a label candidate nor the search around the label tokens is returned and
\* the first date-shaped token of section 16 normalises to a calendar date
\* more than 60 days ahead, that date is the result.
C22_LastFallbackExempt ==
    pc = "resolved" /\ Resolve(sect16, fullText, today).stage \in {"generic", "none"} =>
        \A i \in 1..Len(sect16) :
            /\ FirstTokenAt(i)
            /\ IsIsoDate(NormaliseDate(sect16[i].tok))
            /\ ~WithinBound(sect16[i].tok)
            => issue = NormaliseDate(sect16[i].tok)

(***************************************************************************)
(* The label loop and tokens that no format parses (SpecDate).             *)
(***************************************************************************)
\* the token normalises to a calendar date later than today + 60 days
TooFar(t) == IsIsoDate(NormaliseDate(t)) /\ ~WithinBound(t)

\* the first candidate that is not passed over for lying too far ahead is
\* one no format parses: it is the result as it stands
RawPreempts(c, res) ==
    \A n \in 1..Len(c) :
        /\ c[n] # NoTok /\ Unparseable(c[n])
        /\ \A h \in 1..(n - 1) : c[h] = NoTok \/ TooFar(c[h])
        => res = c[n]

\* C30: in the label loop only a candidate that normalises to a calendar
\* date more than 60 days ahead is passed over; a candidate that no format
\* parses is returned at once as the raw token, whatever the labels after
\* it and the fallbacks would give.
C30_UnparseablePreempts ==
    pc = "resolved" => RawPreempts(Candidates(sect16, fullText), issue)

\* "Date of issue" carries 31/2/2023 and "Revision Date" a date within the
\* bound: the raw token is the result
C30_RawBeatsValid ==
    /\ pc = "resolved"
    /\ sect16 = <<Line(-1, "Date of issue", TokBad), Line(-1, "Revision Date", TokOnBound)>>
    /\ issue = TokBad

(***************************************************************************)
(* Properties of headers and repeated numbers (SpecText).                  *)
(***************************************************************************)
\* C23: a header whose number is written as a word is recorded under that
\* number: a text that opens with "Section Fourteen - ..." has a section
\* 14, one that opens with "SECTION THIRTEEN: ..." a section 13.
C23_WordHeaderKey ==
    pc = "split" /\ fullText # <<>> =>
        /\ fullText[1].k = "Section Fourteen - Transport information" =>
               14 \in DOMAIN sections
        /\ fullText[1].k = "SECTION THIRTEEN: Disposal considerations" =>
               13 \in DOMAIN sections

\* every capture's number has a stored body, which is one of the bodies
\* captured for the number and is not shorter than the capture's body
LongestKept(caps, secs) ==
    \A i \in 1..Len(caps) :
        /\ caps[i].num \in DOMAIN secs
        /\ CharLen(secs[caps[i].num]) >= CharLen(caps[i].body)
        /\ \E j \in 1..Len(caps) :
               caps[j].num = caps[i].num /\ caps[j].body = secs[caps[i].num]

\* C24: the body stored for a number is one of the bodies captured for it
\* and none captured for it is longer, wherever in the text the longest
\* one stands.
C24_LongestBodyKept ==
    pc = "split" => LongestKept(Captures(fullText, -1, <<>>), sections)

\* section 14 is captured twice, the longer body first: the later, empty
\* one does not replace it
C24_LongerBodyFirst ==
    /\ pc = "split"
    /\ fullText = <<Line(14, "UN 1170", NoTok), Line(-1, "plain", NoTok),
                    Line(14, "blank", NoTok)>>
    /\ sections[14] = <<Line(-1, "UN 1170", NoTok), Line(-1, "plain", NoTok)>>

\* C29: every line that starts with a number or a number word is a header:
\* it ends the body before it and starts a capture of its own, so that
\* there are as many captures as such lines.
C29_EveryNumberedLineStartsCapture ==
    pc = "split" =>
        Len(Captures(fullText, -1, <<>>))
            = Cardinality({i \in 1..Len(fullText) : HeaderNum(fullText[i]) >= 0})

(***************************************************************************)
(* Further properties of the dangerous-goods tuple (SpecDG) and of the     *)
(* hazard statements (SpecHaz).                                            *)
(***************************************************************************)
HasSubs == \E i \in 1..Len(sect14) : sect14[i].k \in SubsLexemes

\* C25: a negation phrase in section 14 gives dangerous_good false with
\* confidence 1.0 and no class, packing group, UN number or subsidiary
\* risks, whatever identifiers the section also holds.
C25_NegationFirst ==
    pc = "transported" /\ HasNegation14 =>
        dg = DgTuple(FALSE, Null, Null, Null, 10, Null)

\* a negation phrase next to a UN number: (false, ..., 1.0), nothing extracted
C25_NegationAndUn ==
    /\ pc = "transported"
    /\ HasNegation14 /\ HasUn
    /\ ~dg.is_dg /\ dg.conf = 10 /\ dg.un = Null

\* C26: without a negation phrase dangerous_good is true whenever a UN
\* number, a class, a packing group or a subsidiary risk is present, also
\* when the subsidiary risk is the only one.
C26_AnyItemFlags ==
    pc = "transported" /\ ~HasNegation14 =>
        (HasUn \/ HasClass \/ HasPg \/ HasSubs => dg.is_dg)

\* C27: a section 2 that has no line with an H code and holds a phrase
\* saying that there is no classification gives exactly one hazard statement.
C27_SyntheticEntry ==
    /\ pc = "classified"
    /\ \A i \in 1..Len(sect2) : sect2[i].k \notin HCodeLexemes \cup {"H319"}
    /\ HasNegation2
    => Len(hazard.statements) = 1

(***************************************************************************)
(* Properties of the date normalisation (SpecNormalise).                   *)
(***************************************************************************)
\* the year a slash date names: %Y for four digits, %y for two
YearOf(t) == IF t.yl = 2 THEN TwoDigitYear(t.y) ELSE t.y

\* the result for the slash date a/b/y: day a of month b when that is a
\* calendar date; else month a, day b when that is one, which needs b > 12;
\* else the input
DayFirstResult(t, res) ==
    IF ValidYMD(YearOf(t), t.b, t.a) THEN res = Iso(YearOf(t), t.b, t.a)
    ELSE IF ValidYMD(YearOf(t), t.a, t.b) THEN res = Iso(YearOf(t), t.a, t.b) /\ t.b > 12
    ELSE res = t

\* C28: a slash date a/b/y is normalised to the day-first date (day a,
\* month b) whenever that is a calendar date, also when a and b are both at
\* most 12; to the month-first date only when the day-first reading is
\* invalid; and is returned unchanged when neither reading is valid.
C28_DayFirstPreferred ==
    pc = "normalised" => DayFirstResult(sect16[1].tok, issue)

\* the ambiguous 3/4/2023 is read as 3 April 2023
C28_AmbiguousDayFirst ==
    /\ pc = "normalised"
    /\ sect16[1].tok = Slash(3, 4, 2023, 4)
    /\ issue = Iso(2023, 4, 3)

=============================================================================
